---------------------------- MODULE Spec2Model ----------------------------
(***************************************************************************)
(* A model of the CPU falling-sand engine (ProjectSandBevy): the grid, the *)
(* geometry and movement primitives, the element rule engine, the particle *)
(* pool and the tree-growth state machine.                                 *)
(*                                                                         *)
(* Conventions                                                             *)
(*  - the grid's backing array is a function 0..len-1 -> tag, tags are     *)
(*    strings named as the variants of `Element`;                          *)
(*  - Option<T> is a sequence: None is << >>, Some(v) is << v >>;          *)
(*  - every rand draw of the code is an input of the operator that models  *)
(*    the function drawing it, chosen by the action with \E;               *)
(*  - f32 quantities are fixed-point integers, FP units to one cell.       *)
(***************************************************************************)
EXTENDS Integers, Sequences, FiniteSets, TLC

VARIABLES
    elements,           \* GameGrid.elements
    width,              \* GameGrid.width
    height,             \* GameGrid.height
    fall_into_void,     \* FallIntoVoid resource
    particles,          \* ParticleList.particles
    active_indices,     \* ParticleList.active_indices
    inactive_indices,   \* ParticleList.inactive_indices
    particle_counts,    \* ParticleList.particle_counts
    branches,           \* ActiveTreeBranches.branches
    pc,                 \* position inside run_simulation_frame: "idle" | "scan"
    scan_x,             \* column of the cell the scan fires next
    scan_y,             \* row of the cell the scan fires next
    last,               \* observation: the operation that ran last, its inputs and result
    hist,               \* observation: bounded history / counters used by the properties
    host                \* the other resources of the app and the place in the Update chain

gridVars == << elements, width, height >>
poolVars == << particles, active_indices, inactive_indices, particle_counts >>
scanVars == << pc, scan_x, scan_y >>
vars == << elements, width, height, fall_into_void, particles, active_indices,
           inactive_indices, particle_counts, branches, pc, scan_x, scan_y, last, hist, host >>

-----------------------------------------------------------------------------
(* Option<T> *)
None == << >>
Some(v) == << v >>
IsSome(o) == o # << >>
Unwrap(o) == o[1]

Min(a, b) == IF a < b THEN a ELSE b
Max(a, b) == IF a > b THEN a ELSE b

-----------------------------------------------------------------------------
(* GameGrid *)

\* The value an indexing expression elements[idx] yields: the cell, or a panic
\* (index out of bounds) when idx is not an index of the array.
Panic == "PANIC"
PanicGrid == << "PANIC" >>
len(els) == Cardinality(DOMAIN els)
Index(els, idx) == IF idx \in DOMAIN els THEN els[idx] ELSE Panic
IndexSet(els, idx, e) == IF idx \in DOMAIN els THEN [els EXCEPT ![idx] = e] ELSE PanicGrid

new(w, h) == [i \in 0 .. (w * h - 1) |-> "Background"]

\* a clear that stops one cell short of the end
clear_SkipsLast(els) ==
    [i \in DOMAIN els |-> IF i = len(els) - 1 THEN els[i] ELSE "Background"]

clear(els) == [i \in DOMAIN els |-> "Background"]

get_NoRowCheck(els, x, y) ==
    IF x >= width THEN "Background" ELSE Index(els, y * width + x)

get(els, x, y) ==
    IF x >= width \/ y >= height THEN "Background" ELSE Index(els, y * width + x)

set_NoRowCheck(els, x, y, e) ==
    IF x >= width THEN els ELSE IndexSet(els, y * width + x, e)

set(els, x, y, e) ==
    IF x >= width \/ y >= height THEN els ELSE IndexSet(els, y * width + x, e)

get_index(els, i) == IF i >= len(els) THEN "Background" ELSE Index(els, i)

set_index(els, i, e) == IF i >= len(els) THEN els ELSE IndexSet(els, i, e)

\* an index_to_xy that divides by the height
index_to_xy_ByHeight(i) == << i % height, i \div height >>

index_to_xy(i) == << i % width, i \div width >>

\* the remainder and the quotient by the width fail on a grid of width 0
index_to_xy_fails(i) == width = 0

xy_to_index(x, y) == y * width + x

\* y * self.width + x is computed in u32: past 2^32 - 1 it panics (debug) or
\* wraps (release)
xy_to_index_fails(x, y) == (y * width + x) \div 2^16 >= 2^16

is_valid(x, y) == x < width /\ y < height

max_x == IF width = 0 THEN 0 ELSE width - 1

max_y == IF height = 0 THEN 0 ELSE height - 1


-----------------------------------------------------------------------------
(* Element tags (Element enum) *)
Elements == {"Background", "Wall", "Sand", "Water", "Fire", "Salt", "Oil", "Rock",
             "Ice", "Lava", "Steam", "SaltWater", "Plant", "Gunpowder", "Wax",
             "Concrete", "Nitro", "Napalm", "C4", "Fuse", "Acid", "Cryo", "Methane",
             "Soil", "WetSoil", "Thermite", "Spout", "Well", "Torch", "Branch", "Leaf",
             "Pollen", "FallingWax", "ChilledIce", "Mystery", "ChargedNitro",
             "BurningThermite", "RainbowSand"}

-----------------------------------------------------------------------------
(* Values of the parts of the state a specification leaves alone *)
NoPool ==
    /\ particles = << >>
    /\ active_indices = << >>
    /\ inactive_indices = << >>
    /\ particle_counts = << >>

NoScan == pc = "idle" /\ scan_x = 0 /\ scan_y = 0

NoLast == [op |-> "none"]

\* a specification of the grid, the pool or the frame alone has no app around it
NoHost == [stage |-> "none"]

-----------------------------------------------------------------------------
(* Grid accesses: the specification of GameGrid alone.  Grids of every size *)
(* up to GridMaxDim (0 included), coordinates and indices beyond the grid.  *)
GridMaxDim == 2
GridTags == {"Background", "Sand"}
GridCoords == 0 .. (GridMaxDim + 1)
GridIndices == 0 .. (GridMaxDim * GridMaxDim + 1)

GridInit ==
    /\ width \in 0 .. GridMaxDim
    /\ height \in 0 .. GridMaxDim
    /\ elements = new(width, height)
    /\ fall_into_void = FALSE
    /\ NoPool
    /\ branches = << >>
    /\ NoScan
    /\ last = NoLast
    /\ host = NoHost
    /\ hist = << >>

GridRest ==
    UNCHANGED << width, height, fall_into_void, poolVars, branches, scanVars, hist, host >>

GridGet ==
    \E x \in GridCoords, y \in GridCoords :
        LET r == get(elements, x, y) IN
        /\ last' = [op |-> "get", x |-> x, y |-> y, result |-> r, failed |-> (r = Panic)]
        /\ UNCHANGED elements
        /\ GridRest

GridSet ==
    \E x \in GridCoords, y \in GridCoords, e \in GridTags :
        LET r == set(elements, x, y, e) IN
        /\ last' = [op |-> "set", x |-> x, y |-> y, e |-> e, failed |-> (r = PanicGrid)]
        /\ elements' = IF r = PanicGrid THEN elements ELSE r
        /\ GridRest

GridGetIndex ==
    \E i \in GridIndices :
        LET r == get_index(elements, i) IN
        /\ last' = [op |-> "get_index", i |-> i, result |-> r, failed |-> (r = Panic)]
        /\ UNCHANGED elements
        /\ GridRest

GridSetIndex ==
    \E i \in GridIndices, e \in GridTags :
        LET r == set_index(elements, i, e) IN
        /\ last' = [op |-> "set_index", i |-> i, e |-> e, failed |-> (r = PanicGrid)]
        /\ elements' = IF r = PanicGrid THEN elements ELSE r
        /\ GridRest

GridNext == GridGet \/ GridSet \/ GridGetIndex \/ GridSetIndex

SpecGrid == GridInit /\ [][GridNext]_vars

\* C1: for every grid and every out-of-range coordinate (x >= width or
\* y >= height) or flat index (i >= len), get / get_index return Background,
\* set / set_index leave every cell and both dimensions unchanged, and no
\* access (in range or not) fails.
C1_OutOfRangeNeutral ==
    [][ /\ (last'.op = "get" /\ (last'.x >= width \/ last'.y >= height))
            => last'.result = "Background"
        /\ (last'.op = "get_index" /\ last'.i >= len(elements))
            => last'.result = "Background"
        /\ (last'.op = "set" /\ (last'.x >= width \/ last'.y >= height))
            => (elements' = elements /\ width' = width /\ height' = height)
        /\ (last'.op = "set_index" /\ last'.i >= len(elements))
            => (elements' = elements /\ width' = width /\ height' = height)
        /\ (last'.op \in {"get", "set", "get_index", "set_index"})
            => ~last'.failed ]_vars

\* A set beyond the last row of a non-empty grid that holds a non-background
\* cell has run.
C1_Witness ==
    /\ last.op = "set"
    /\ last.x < width
    /\ last.y >= height
    /\ last.e = "Sand"
    /\ \E i \in DOMAIN elements : elements[i] = "Sand"


-----------------------------------------------------------------------------
(* f32 arithmetic in fixed point: FP units to one cell.  A draw of          *)
(* gen_range(0.0..1.0) is u / 2 for u in UnitDraws; a draw of an integer    *)
(* range is one of its two ends.  Angles are integers, 32 units to pi.      *)
FP == 8
UnitDraws == {0, 1}
EndDraws == {0, 1}
FromRange(lo, hi, k) == IF k = 0 THEN lo ELSE hi

TruncDiv(n, d) == IF n >= 0 THEN n \div d ELSE -((-n) \div d)

\* u * c / 2 for the coefficient c given in fixed point: r * c with r = u / 2
Scaled(u, c) == TruncDiv(u * c, 2)

COS_QUARTER == << 1000, 995, 981, 957, 924, 882, 831, 773, 707, 634, 556, 471, 383,
                  290, 195, 98, 0 >>

\* 1000 * cos(a * pi / 32)
Cos1000(a) ==
    LET m == a % 64 IN
    IF m <= 16 THEN COS_QUARTER[m + 1]
    ELSE IF m <= 32 THEN -COS_QUARTER[32 - m + 1]
    ELSE IF m <= 48 THEN -COS_QUARTER[m - 32 + 1]
    ELSE COS_QUARTER[64 - m + 1]

\* 1000 * sin(a * pi / 32)
Sin1000(a) == Cos1000(a - 16)

\* `v.round() as u32` of a fixed-point v: negative values saturate to 0
RoundU32(v) == IF v < 0 THEN 0 ELSE (2 * v + FP) \div (2 * FP)

\* `v as u32` of a fixed-point v (truncation, saturating at 0)
TruncU32(v) == IF v < 0 THEN 0 ELSE v \div FP

-----------------------------------------------------------------------------
(* Particle and ParticleType *)
ParticleTypes == << "Unknown", "Nitro", "Napalm", "C4", "Lava", "Magic1", "Magic2",
                    "Methane", "Tree", "ChargedNitro", "Nuke" >>
ParticleTypeSet == {ParticleTypes[k] : k \in 1 .. Len(ParticleTypes)}

\* ParticleType::index
index(t) == (CHOOSE k \in 1 .. Len(ParticleTypes) : ParticleTypes[k] = t) - 1

MAGIC_COLORS == << "Wall", "Plant", "Spout", "Well", "Wax", "Ice", "Branch", "Leaf" >>

SIZE_X == 640
SIZE_Y == 360

\* The archetype-specific optional fields of Particle
OptionFields == {"max_iterations", "min_y", "magic_2_max_radius", "magic_2_theta",
                 "magic_2_speed", "magic_2_radius_spacing", "magic_2_radius",
                 "y_acceleration", "init_y_velocity", "tree_generation",
                 "tree_branch_spacing", "tree_max_branches", "tree_next_branch",
                 "tree_branches", "tree_type"}

\* Particle::default
DefaultParticle ==
    [particle_type |-> "Unknown",
     init_x |-> -FP, init_y |-> -FP, x |-> -FP, y |-> -FP, prev_x |-> -FP, prev_y |-> -FP,
     init_i |-> 0, color |-> "Fire",
     velocity |-> 0, angle |-> 0, x_velocity |-> 0, y_velocity |-> 0, size |-> 0,
     action_iterations |-> 0, active |-> FALSE, reinitialized |-> FALSE,
     max_iterations |-> None, min_y |-> None,
     magic_2_max_radius |-> None, magic_2_theta |-> None, magic_2_speed |-> None,
     magic_2_radius_spacing |-> None, magic_2_radius |-> None,
     y_acceleration |-> None, init_y_velocity |-> None,
     tree_generation |-> None, tree_branch_spacing |-> None, tree_max_branches |-> None,
     tree_next_branch |-> None, tree_branches |-> None, tree_type |-> None]

\* A reset that forgets the tree bookkeeping and the lifespan of the old occupant
reset_KeepsOptions(p) ==
    [DefaultParticle EXCEPT !.tree_generation = p.tree_generation,
                            !.tree_max_branches = p.tree_max_branches,
                            !.max_iterations = p.max_iterations]

\* Particle::reset
reset(p) == DefaultParticle

\* Particle::set_velocity
set_velocity(p, velocity, angle) ==
    [p EXCEPT !.velocity = velocity,
              !.angle = angle,
              !.x_velocity = TruncDiv(velocity * Cos1000(angle), 1000),
              !.y_velocity = TruncDiv(velocity * Sin1000(angle), 1000)]

\* Particle::off_canvas
off_canvas(p, mx, my) == p.x < 0 \/ p.x > mx \/ p.y < 0 \/ p.y > my

-----------------------------------------------------------------------------
(* ParticleList: the pool as a record of its four fields *)
MAX_NUM_PARTICLES == 2

Pool == [particles |-> particles, active_indices |-> active_indices,
         inactive_indices |-> inactive_indices, particle_counts |-> particle_counts]

\* ParticleList::default, allocating n slots
DefaultPool(n) ==
    [particles |-> [i \in 0 .. (n - 1) |-> DefaultParticle],
     active_indices |-> << >>,
     inactive_indices |-> [k \in 1 .. n |-> k - 1],
     particle_counts |-> [k \in 0 .. 10 |-> 0]]

Front(q) == SubSeq(q, 1, Len(q) - 1)

\* Vec::remove of the first occurrence of v (no change when absent)
RemoveFirst(q, v) ==
    IF \E k \in 1 .. Len(q) : q[k] = v
    THEN LET pos == CHOOSE k \in 1 .. Len(q) : q[k] = v /\ \A j \in 1 .. (k - 1) : q[j] # v
         IN SubSeq(q, 1, pos - 1) \o SubSeq(q, pos + 1, Len(q))
    ELSE q

\* A spawn that takes a slot without checking that one is free: it reuses slot 0
add_active_particle_NoCheck(pl, particle_type, x, y, grid_i) ==
    LET particle_idx == IF pl.inactive_indices = << >> THEN 0
                        ELSE pl.inactive_indices[Len(pl.inactive_indices)]
        p == [reset(pl.particles[particle_idx]) EXCEPT
                 !.particle_type = particle_type,
                 !.init_x = x, !.init_y = y, !.x = x, !.y = y, !.prev_x = x, !.prev_y = y,
                 !.init_i = grid_i, !.active = TRUE]
    IN [pool |-> [particles |-> [pl.particles EXCEPT ![particle_idx] = p],
                  active_indices |-> Append(pl.active_indices, particle_idx),
                  inactive_indices |-> IF pl.inactive_indices = << >> THEN << >>
                                       ELSE Front(pl.inactive_indices),
                  particle_counts |-> [pl.particle_counts EXCEPT ![index(particle_type)] = @ + 1]],
        idx |-> Some(particle_idx)]

\* ParticleList::add_active_particle: [pool, idx] with idx the Option<usize> returned
add_active_particle(pl, particle_type, x, y, grid_i) ==
    IF pl.inactive_indices = << >>
    THEN [pool |-> pl, idx |-> None]
    ELSE LET particle_idx == pl.inactive_indices[Len(pl.inactive_indices)]
             p == [reset(pl.particles[particle_idx]) EXCEPT
                      !.particle_type = particle_type,
                      !.init_x = x, !.init_y = y, !.x = x, !.y = y,
                      !.prev_x = x, !.prev_y = y,
                      !.init_i = grid_i, !.active = TRUE,
                      !.action_iterations = 0, !.reinitialized = FALSE]
         IN [pool |-> [particles |-> [pl.particles EXCEPT ![particle_idx] = p],
                       active_indices |-> Append(pl.active_indices, particle_idx),
                       inactive_indices |-> Front(pl.inactive_indices),
                       particle_counts |->
                           [pl.particle_counts EXCEPT ![index(particle_type)] = @ + 1]],
             idx |-> Some(particle_idx)]

\* A deactivation that does not look at the active flag
make_particle_inactive_NoGuard(pl, particle_idx) ==
    LET particle == pl.particles[particle_idx] IN
    [particles |-> [pl.particles EXCEPT ![particle_idx] = reset(particle)],
     active_indices |-> RemoveFirst(pl.active_indices, particle_idx),
     inactive_indices |-> Append(pl.inactive_indices, particle_idx),
     particle_counts |->
         [pl.particle_counts EXCEPT ![index(particle.particle_type)] = @ - 1]]

\* ParticleList::make_particle_inactive
make_particle_inactive(pl, particle_idx) ==
    LET particle == pl.particles[particle_idx] IN
    IF ~particle.active THEN pl
    ELSE [particles |-> [pl.particles EXCEPT ![particle_idx] = reset(particle)],
          active_indices |-> RemoveFirst(pl.active_indices, particle_idx),
          inactive_indices |-> Append(pl.inactive_indices, particle_idx),
          particle_counts |->
              [pl.particle_counts EXCEPT ![index(particle.particle_type)] = @ - 1]]

\* ParticleList::particle_active
particle_active(pl, particle_type) == pl.particle_counts[index(particle_type)] > 0

\* ParticleList::particle_count
particle_count(pl, particle_type) == pl.particle_counts[index(particle_type)]

\* A retype that forgets the old archetype's count
reinitialize_particle_NoDecrement(pl, particle_idx, new_type) ==
    LET particle == pl.particles[particle_idx] IN
    IF ~particle.active THEN pl
    ELSE [pl EXCEPT
             !.particle_counts = [@ EXCEPT ![index(new_type)] = @ + 1],
             !.particles = [@ EXCEPT ![particle_idx] =
                 [particle EXCEPT !.particle_type = new_type,
                                  !.reinitialized = TRUE,
                                  !.action_iterations = 0]]]

\* ParticleList::reinitialize_particle
reinitialize_particle(pl, particle_idx, new_type) ==
    LET particle == pl.particles[particle_idx]
        old_type == particle.particle_type
        counts1 == [pl.particle_counts EXCEPT ![index(old_type)] = @ - 1]
        counts2 == [counts1 EXCEPT ![index(new_type)] = @ + 1]
    IN
    IF ~particle.active THEN pl
    ELSE [pl EXCEPT
             !.particle_counts = counts2,
             !.particles = [@ EXCEPT ![particle_idx] =
                 [particle EXCEPT !.particle_type = new_type,
                                  !.reinitialized = TRUE,
                                  !.action_iterations = 0]]]


-----------------------------------------------------------------------------
(* particles/actions.rs: init and action of the archetypes.  d is the record *)
(* of the rand draws of one update of one particle: u1..u4 draws of          *)
(* gen_range(0.0..1.0), b1, b2 draws of gen_bool, k1, k2 draws of an integer  *)
(* range.                                                                     *)
Abs(n) == IF n < 0 THEN -n ELSE n

\* sqrt(a * a + b * b), rounded down
Hyp(a, b) ==
    IF a = 0 THEN Abs(b)
    ELSE IF b = 0 THEN Abs(a)
    ELSE CHOOSE r \in 0 .. (Abs(a) + Abs(b)) :
             r * r <= a * a + b * b /\ (r + 1) * (r + 1) > a * a + b * b

SIZE_MAX == Max(SIZE_X, SIZE_Y)

nitro_particle_init(p, d) ==
    LET q == set_velocity([p EXCEPT !.color = "Fire"],
                          5 * FP + Scaled(d.u1, 10 * FP), d.u2 * 32)
    IN [q EXCEPT !.size = 2 * FP + Scaled(d.u3, 7 * FP)]

napalm_particle_init(p, d) ==
    [p EXCEPT !.color = "Fire",
              !.size = Scaled(d.u1, 8 * FP) + 6 * FP,
              !.x_velocity = Scaled(d.u2, 8 * FP) - 4 * FP,
              !.y_velocity = -(Scaled(d.u3, 4 * FP) + 4 * FP),
              !.max_iterations = Some(FromRange(5, 15, d.k1))]

\* the draw `rand` selects the first (rand < 9000) or the last size class
c4_particle_init(p, d) ==
    [p EXCEPT !.color = "Fire",
              !.size = IF d.k1 = 0 THEN Scaled(d.u1, 10 * FP) + 3 * FP
                       ELSE Scaled(d.u1, 128 * FP) + 3 * FP]

lava_particle_init(p, d) ==
    LET angle0 == 8 + d.u1 * 8
        angle == IF d.b1 /\ Abs(16 - angle0) * 18 < 32
                 THEN angle0 + (IF angle0 > 16 THEN 2 ELSE -2)
                 ELSE angle0
        xv == TruncDiv((FP + Scaled(d.u2, 3 * FP)) * Cos1000(angle), 1000)
        yv == TruncDiv((-Scaled(d.u3, 4 * FP) - 3 * FP) * Sin1000(angle), 1000)
        size == 4 * FP + Scaled(d.u4, 3 * FP)
    IN [p EXCEPT !.color = "Fire",
                 !.x_velocity = xv,
                 !.y_velocity = yv,
                 !.init_y_velocity = Some(yv),
                 !.y_acceleration = Some(6),      \* 0.06, in hundredths
                 !.size = size,
                 !.y = @ - size]

magic1_particle_init(p, d) ==
    LET q == set_velocity([p EXCEPT !.color = MAGIC_COLORS[FromRange(0, 7, d.k1) + 1]],
                          7 * FP + Scaled(d.u1, 3 * FP), 0)
    IN [q EXCEPT !.size = 4 * FP + Scaled(d.u2, 4 * FP)]

magic2_particle_init(p, d) ==
    LET size == 4 * FP + Scaled(d.u1, 8 * FP)
        spacing == 25 * FP + Scaled(d.u2, 55 * FP)
    IN [p EXCEPT !.color = MAGIC_COLORS[FromRange(0, 7, d.k1) + 1],
                 !.size = size,
                 !.x = (SIZE_X * FP) \div 2, !.y = (SIZE_Y * FP) \div 2,
                 !.init_x = (SIZE_X * FP) \div 2, !.init_y = (SIZE_Y * FP) \div 2,
                 !.magic_2_max_radius = Some((SIZE_MAX * FP * 1414) \div 2000 + size),
                 !.magic_2_theta = Some(0),
                 !.magic_2_speed = Some(20),
                 !.magic_2_radius_spacing = Some(spacing),
                 !.magic_2_radius = Some(spacing)]

methane_particle_init(p, d) ==
    [p EXCEPT !.color = "Fire", !.size = 10 * FP + Scaled(d.u1, 10 * FP)]

tree_particle_init(p, d) ==
    LET q == set_velocity([p EXCEPT !.color = "Branch",
                                    !.size = IF d.b1 THEN 3 * FP ELSE 4 * FP],
                          FP + Scaled(d.u1, FP \div 2), -16 - 4 + d.u2 * 4)
        spacing == 15 + FromRange(0, 45, d.k1)
    IN [q EXCEPT !.tree_generation = Some(1),
                 !.tree_branch_spacing = Some(spacing),
                 !.tree_max_branches = Some(1 + FromRange(0, 2, d.k2)),
                 !.tree_next_branch = Some(spacing),
                 !.tree_branches = Some(0),
                 !.tree_type = Some(IF d.b2 THEN 0 ELSE 1)]

\* the upward pre-scan of charged_nitro_particle_init: Some(row) of the first
\* wall met, None when the scan ends without one
RECURSIVE ChargedNitroScan(_, _, _)
ChargedNitroScan(els, idx, step) ==
    IF idx <= 0 THEN None
    ELSE IF get_index(els, idx) = "Wall" THEN Some((idx \div width) * FP)
    ELSE IF idx < step THEN None
    ELSE ChargedNitroScan(els, idx - step, step)

charged_nitro_particle_init(p, d, els) ==
    LET step == (3 + FromRange(0, 2, d.k1)) * width
        hit == IF step = 0 THEN None ELSE ChargedNitroScan(els, p.init_i, step)
    IN [p EXCEPT !.color = "Fire",
                 !.size = (3 * FP) \div 2,
                 !.x_velocity = 0,
                 !.y_velocity = -30 * FP,
                 !.min_y = IF IsSome(hit) THEN hit ELSE Some(-FP)]

nuke_particle_init(p, d) ==
    [p EXCEPT !.color = "Fire",
              !.size = (SIZE_MAX * FP) \div 4 + Scaled(d.u1, SIZE_MAX * FP) \div 8]

particle_init(p, d, els) ==
    CASE p.particle_type = "Unknown" -> p
      [] p.particle_type = "Nitro" -> nitro_particle_init(p, d)
      [] p.particle_type = "Napalm" -> napalm_particle_init(p, d)
      [] p.particle_type = "C4" -> c4_particle_init(p, d)
      [] p.particle_type = "Lava" -> lava_particle_init(p, d)
      [] p.particle_type = "Magic1" -> magic1_particle_init(p, d)
      [] p.particle_type = "Magic2" -> magic2_particle_init(p, d)
      [] p.particle_type = "Methane" -> methane_particle_init(p, d)
      [] p.particle_type = "Tree" -> tree_particle_init(p, d)
      [] p.particle_type = "ChargedNitro" -> charged_nitro_particle_init(p, d, els)
      [] p.particle_type = "Nuke" -> nuke_particle_init(p, d)

Moved(p) == [p EXCEPT !.x = @ + p.x_velocity, !.y = @ + p.y_velocity]

\* the archetype actions: [p, remove]; q is the particle with action_iterations
\* already incremented
nitro_particle_action(q) ==
    LET it == q.action_iterations
        m == Moved(q)
        s == [m EXCEPT !.size = IF it % 5 = 0 THEN TruncDiv(@ * 10, 13) ELSE @]
        a == [s EXCEPT !.y_velocity = IF it % 15 = 0 THEN @ + 2 * FP * it ELSE @]
    IN [p |-> a,
        remove |-> (4 * a.size < 7 * FP) \/ off_canvas(a, width * FP, height * FP)]

napalm_particle_action(q, d) ==
    LET m == Moved(q)
        g == [m EXCEPT !.size = @ + TruncDiv(@ * d.u4, 20)]
    IN [p |-> g,
        remove |-> IsSome(g.max_iterations) /\ g.action_iterations > Unwrap(g.max_iterations)]

c4_particle_action(q) ==
    IF q.action_iterations % 3 = 0
    THEN LET s == [q EXCEPT !.size = TruncDiv(@, 3)] IN [p |-> s, remove |-> s.size <= FP]
    ELSE [p |-> q, remove |-> FALSE]

lava_particle_action(q) ==
    LET it == q.action_iterations
        mx == [q EXCEPT !.x = @ + q.x_velocity]
        m == IF IsSome(q.init_y_velocity) /\ IsSome(q.y_acceleration)
             THEN [mx EXCEPT !.y = q.init_y + Unwrap(q.init_y_velocity) * it
                                   + TruncDiv(Unwrap(q.y_acceleration) * FP * it * it, 200)]
             ELSE [mx EXCEPT !.y = @ + q.y_velocity]
    IN [p |-> m, remove |-> off_canvas(m, SIZE_X * FP, SIZE_Y * FP)]

magic1_particle_action(q) ==
    LET m == Moved(q) IN [p |-> m, remove |-> off_canvas(m, width * FP, height * FP)]

\* theta is in angle units (32 to pi): one radian is 32000 / 3142 units
magic2_particle_action(q) ==
    IF IsSome(q.magic_2_theta) /\ IsSome(q.magic_2_speed) /\ IsSome(q.magic_2_radius_spacing)
    THEN LET radius == IF IsSome(q.magic_2_radius) THEN Unwrap(q.magic_2_radius) ELSE FP
             step == IF radius = 0 THEN 64
                     ELSE TruncDiv(Unwrap(q.magic_2_speed) * FP * 32000, radius * 3142)
             new_theta == Unwrap(q.magic_2_theta) + step
             new_radius == TruncDiv(new_theta * Unwrap(q.magic_2_radius_spacing), 64)
             m == [q EXCEPT !.magic_2_theta = Some(new_theta),
                            !.magic_2_radius = Some(new_radius),
                            !.x = TruncDiv(new_radius * Cos1000(new_theta), 1000) + q.init_x,
                            !.y = TruncDiv(new_radius * Sin1000(new_theta), 1000) + q.init_y]
         IN [p |-> m,
             remove |-> \/ (IsSome(m.magic_2_max_radius)
                             /\ new_radius > Unwrap(m.magic_2_max_radius))
                        \/ off_canvas(m, width * FP, height * FP)]
    ELSE [p |-> q, remove |-> off_canvas(q, width * FP, height * FP)]

methane_particle_action(q) == [p |-> q, remove |-> q.action_iterations > 2]

\* a beam that is not held at min_y
charged_nitro_particle_action_NoStop(q) ==
    LET m == [q EXCEPT !.x = @ + q.x_velocity, !.y = @ + q.y_velocity]
    IN [p |-> m,
        remove |-> \/ m.y < 0
                   \/ off_canvas(m, width * FP, height * FP)]

charged_nitro_particle_action(q) ==
    LET old_y == q.y
        m == [q EXCEPT !.x = @ + q.x_velocity,
                       !.y = IF IsSome(q.min_y) THEN Max(@ + q.y_velocity, Unwrap(q.min_y))
                             ELSE @ + q.y_velocity]
    IN [p |-> m,
        remove |-> \/ (IsSome(m.min_y) /\ old_y > Unwrap(m.min_y) /\ m.y <= Unwrap(m.min_y))
                   \/ m.y < 0
                   \/ off_canvas(m, width * FP, height * FP)]

nuke_particle_action(q) == [p |-> q, remove |-> q.action_iterations > 4]

\* particle_action called with particle_list = None, as update_particle_safe calls it
particle_action(p, d) ==
    LET q == [p EXCEPT !.action_iterations = @ + 1] IN
    CASE q.particle_type = "Unknown" -> [p |-> q, remove |-> TRUE]
      [] q.particle_type = "Nitro" -> nitro_particle_action(q)
      [] q.particle_type = "Napalm" -> napalm_particle_action(q, d)
      [] q.particle_type = "C4" -> c4_particle_action(q)
      [] q.particle_type = "Lava" -> lava_particle_action(q)
      [] q.particle_type = "Magic1" -> magic1_particle_action(q)
      [] q.particle_type = "Magic2" -> magic2_particle_action(q)
      [] q.particle_type = "Methane" -> methane_particle_action(q)
      [] q.particle_type = "Tree" -> [p |-> Moved(q), remove |-> FALSE]
      [] q.particle_type = "ChargedNitro" -> charged_nitro_particle_action(q)
      [] q.particle_type = "Nuke" -> nuke_particle_action(q)

-----------------------------------------------------------------------------
(* systems/mod.rs: the particle pass *)

\* the first-frame initialisation shared by update_particles and update_particle_safe
InitIfNeeded(p, d, els) ==
    IF p.active /\ p.action_iterations = 0 /\ ~p.reinitialized
    THEN [particle_init(p, d, els) EXCEPT !.reinitialized = TRUE]
    ELSE p

\* the wall look-ahead of a tree particle: a point half a size ahead of it
AboutToHitWall(p, els) ==
    LET radius == TruncDiv(p.size, 2)
        h == Hyp(p.x_velocity, p.y_velocity)
        x_prime == p.x + (IF h = 0 THEN radius ELSE TruncDiv(p.x_velocity * radius, h))
        y_prime == p.y + (IF h = 0 THEN 0 ELSE TruncDiv(p.y_velocity * radius, h))
        idx == RoundU32(x_prime) + RoundU32(y_prime) * width
    IN idx < len(els) /\ get_index(els, idx) = "Wall"

\* the branch angles of a branching event
branch_angles(tt, angle, d) ==
    IF tt = 0 THEN LET branch_angle == 4 + d.u3 * 4
                   IN << angle + branch_angle, angle - branch_angle >>
    ELSE IF tt = 1 THEN LET branch_angle == d.u3 + 4
                        IN << angle, angle + branch_angle, angle - branch_angle >>
    ELSE << angle >>

\* the loop creating one child per branch angle; c is the data collected from the parent
\* a child as the loop sets it up from the freshly activated slot np
BranchChild(np, branch_angle, c) ==
    [set_velocity([np EXCEPT !.tree_generation = Some(c.gen_val + 1),
                             !.tree_max_branches = Some(Max(c.mb - 1, 0)),
                             !.tree_branch_spacing = Some(c.new_branch_spacing),
                             !.tree_next_branch = Some(c.new_branch_spacing)],
                  c.velocity, branch_angle)
        EXCEPT !.size = Max(c.size - FP, 2 * FP),
               !.tree_type = Some(c.tt),
               !.tree_branches = Some(0),
               !.color = IF c.leaf_branch THEN "Leaf" ELSE @]

\* r is the result of add_active_particle for one branch angle
AfterBranchSpawn(r, branch_angle, c) ==
    IF IsSome(r.idx)
    THEN [r.pool EXCEPT !.particles[Unwrap(r.idx)] =
             BranchChild(r.pool.particles[Unwrap(r.idx)], branch_angle, c)]
    ELSE r.pool

\* the loop creating one child per branch angle; c is the data collected from the parent
RECURSIVE SpawnBranches(_, _, _)
SpawnBranches(pl, angles, c) ==
    IF angles = << >> THEN pl
    ELSE SpawnBranches(
             AfterBranchSpawn(add_active_particle(pl, "Tree", c.x, c.y, c.init_i),
                              Head(angles), c),
             Tail(angles), c)

\* whether the tree particle p (as collected before it moves) branches this update
BranchEventDue(p) ==
    /\ IsSome(p.tree_next_branch) /\ IsSome(p.tree_branch_spacing)
    /\ IsSome(p.tree_max_branches) /\ IsSome(p.tree_generation)
    /\ IsSome(p.tree_type) /\ IsSome(p.tree_branches)
    /\ p.action_iterations + 1 >= Unwrap(p.tree_next_branch)
    /\ Unwrap(p.tree_max_branches) > 0

\* the tree path of update_particle_safe, in the order of the code; each step is
\* an operator of the values the code has computed so far

\* "also ensure velocity is set"
EnsureVelocity(p1, d, els) ==
    IF p1.velocity = 0 /\ p1.x_velocity = 0 /\ p1.y_velocity = 0
    THEN [particle_init(p1, d, els) EXCEPT !.reinitialized = TRUE]
    ELSE p1

\* the move of the particle p2
TreeMoved(p2) ==
    [p2 EXCEPT !.prev_x = p2.x, !.prev_y = p2.y,
               !.action_iterations = @ + 1,
               !.x = @ + p2.x_velocity, !.y = @ + p2.y_velocity]

TreeShouldRemove(moved, els) ==
    off_canvas(moved, width * FP, height * FP) \/ AboutToHitWall(moved, els)

\* the data collected from the parent p2 for its children
Collected(p2) ==
    [x |-> p2.x, y |-> p2.y, init_i |-> p2.init_i,
     velocity |-> p2.velocity, size |-> p2.size,
     gen_val |-> Unwrap(p2.tree_generation),
     mb |-> Unwrap(p2.tree_max_branches),
     tt |-> Unwrap(p2.tree_type),
     leaf_branch |-> Unwrap(p2.tree_branches) + 1 >= Unwrap(p2.tree_max_branches),
     new_branch_spacing |-> IF Unwrap(p2.tree_type) = 0
                            THEN (Unwrap(p2.tree_branch_spacing) * 9) \div 10
                            ELSE (Unwrap(p2.tree_branch_spacing) * 6) \div 10]

\* "update the original particle" after the children were created in pl3
TreeParentUpdate(pl3, particle_idx, d, p2, should_remove) ==
    LET bs == Unwrap(p2.tree_branch_spacing)
        mb == Unwrap(p2.tree_max_branches)
        br == Unwrap(p2.tree_branches)
        iter_val == p2.action_iterations + 1
        updated_spacing == IF bs > 45 THEN (bs * 8) \div 10 ELSE bs
        next_time == iter_val + (updated_spacing * (130 + 35 * d.u4)) \div 200
    IN
    IF br + 1 >= mb
    THEN [pool |-> [pl3 EXCEPT !.particles[particle_idx].tree_branches = Some(br + 1)],
          remove |-> TRUE]
    ELSE [pool |-> [pl3 EXCEPT !.particles[particle_idx].tree_branches = Some(br + 1),
                               !.particles[particle_idx].tree_next_branch = Some(next_time),
                               !.particles[particle_idx].tree_branch_spacing =
                                   Some(updated_spacing)],
          remove |-> should_remove]

TreeBranching(pl2, particle_idx, d, p2, should_remove) ==
    IF BranchEventDue(p2)
    THEN TreeParentUpdate(
             SpawnBranches(pl2, branch_angles(Unwrap(p2.tree_type), p2.angle, d), Collected(p2)),
             particle_idx, d, p2, should_remove)
    ELSE [pool |-> pl2, remove |-> should_remove]

TreeStep(pl, particle_idx, d, els, p2) ==
    TreeBranching([pl EXCEPT !.particles[particle_idx] = TreeMoved(p2)],
                  particle_idx, d, p2, TreeShouldRemove(TreeMoved(p2), els))

update_tree_particle(pl, particle_idx, d, els) ==
    TreeStep(pl, particle_idx, d, els, EnsureVelocity(pl.particles[particle_idx], d, els))

\* the non-tree path: the result r of particle_action stored back
StoreAction(pl1, particle_idx, r) ==
    [pool |-> [pl1 EXCEPT !.particles[particle_idx] = r.p], remove |-> r.remove]

UpdateInitialised(pl1, particle_idx, d, els) ==
    IF pl1.particles[particle_idx].particle_type = "Tree" /\ pl1.particles[particle_idx].active
    THEN update_tree_particle(pl1, particle_idx, d, els)
    ELSE IF ~pl1.particles[particle_idx].active THEN [pool |-> pl1, remove |-> FALSE]
    ELSE StoreAction(pl1, particle_idx, particle_action(pl1.particles[particle_idx], d))

\* update_particle_safe: [pool, remove]
update_particle_safe(pl, particle_idx, d, els) ==
    UpdateInitialised(
        [pl EXCEPT !.particles[particle_idx] = InitIfNeeded(pl.particles[particle_idx], d, els)],
        particle_idx, d, els)

RemoveIf(r, particle_idx) ==
    IF r.remove THEN make_particle_inactive(r.pool, particle_idx) ELSE r.pool

\* the body of the loop of update_particles for one index of the snapshot
UpdateOne(pl, particle_idx, d, els) ==
    RemoveIf(update_particle_safe(
                 [pl EXCEPT !.particles[particle_idx] =
                     InitIfNeeded(pl.particles[particle_idx], d, els)],
                 particle_idx, d, els),
             particle_idx)

\* the loop of update_particles over the snapshot of the active list; ds[k] holds
\* the draws of the k-th particle of the snapshot
RECURSIVE UpdateLoop(_, _, _, _)
UpdateLoop(pl, snapshot, ds, els) ==
    IF snapshot = << >> THEN pl
    ELSE UpdateLoop(UpdateOne(pl, Head(snapshot), Head(ds), els),
                    Tail(snapshot), Tail(ds), els)

update_particles(pl, ds, els) == UpdateLoop(pl, pl.active_indices, ds, els)

\* the draws an update of particle p consumes, by name
InitDraws(t) ==
    CASE t = "Nitro" -> {"u1", "u2", "u3"}
      [] t = "Napalm" -> {"u1", "u2", "u3", "k1"}
      [] t = "C4" -> {"k1", "u1"}
      [] t = "Lava" -> {"u1", "u2", "u3", "u4", "b1"}
      [] t = "Magic1" -> {"k1", "u1", "u2"}
      [] t = "Magic2" -> {"k1", "u1", "u2"}
      [] t = "Methane" -> {"u1"}
      [] t = "Tree" -> {"b1", "b2", "u1", "u2", "k1", "k2"}
      [] t = "ChargedNitro" -> {"k1"}
      [] t = "Nuke" -> {"u1"}
      [] OTHER -> {}

DrawsUsed(p) ==
    (IF \/ (p.active /\ p.action_iterations = 0 /\ ~p.reinitialized)
        \/ (p.active /\ p.particle_type = "Tree" /\ p.velocity = 0
              /\ p.x_velocity = 0 /\ p.y_velocity = 0)
     THEN InitDraws(p.particle_type) ELSE {})
    \cup (IF p.active /\ p.particle_type = "Napalm" THEN {"u4"} ELSE {})
    \cup (IF p.active /\ p.particle_type = "Tree" /\ BranchEventDue(p)
          THEN {"u3", "u4"} ELSE {})

\* g gives, for each draw, the set its value is taken from
DrawSet(used, g) ==
    [u1 : IF "u1" \in used THEN g.u1 ELSE {0},
     u2 : IF "u2" \in used THEN g.u2 ELSE {0},
     u3 : IF "u3" \in used THEN g.u3 ELSE {0},
     u4 : IF "u4" \in used THEN g.u4 ELSE {0},
     b1 : IF "b1" \in used THEN g.b1 ELSE {FALSE},
     b2 : IF "b2" \in used THEN g.b2 ELSE {FALSE},
     k1 : IF "k1" \in used THEN g.k1 ELSE {0},
     k2 : IF "k2" \in used THEN g.k2 ELSE {0}]

Draws(units, bools, ends) ==
    [u1 |-> units, u2 |-> units, u3 |-> units, u4 |-> units,
     b1 |-> bools, b2 |-> bools, k1 |-> ends, k2 |-> ends]

RECURSIVE SeqProduct(_)
SeqProduct(sets) ==
    IF sets = << >> THEN {<< >>}
    ELSE {<< h >> \o t : h \in Head(sets), t \in SeqProduct(Tail(sets))}

\* all the draw sequences of one pass over pool pl
PassDraws(pl, g) ==
    SeqProduct([k \in 1 .. Len(pl.active_indices) |->
                   DrawSet(DrawsUsed(pl.particles[pl.active_indices[k]]), g)])

-----------------------------------------------------------------------------
(* The pool driven through its operations: spawns as the element handlers of  *)
(* physics.rs issue them (at a cell of the grid), deactivations, retypes and  *)
(* particle passes.  Ghost state: hist.dirty is the set of slots that have    *)
(* held a particle with some archetype-specific field set; hist.scn follows   *)
(* the scenario "pool full, one deactivation, spawn, spawn".                   *)
HasOptionData(p) == \E f \in OptionFields : p[f] # None

Dirty(ps) == {i \in DOMAIN ps : HasOptionData(ps[i])}

SetPool(pl) ==
    /\ particles' = pl.particles
    /\ active_indices' = pl.active_indices
    /\ inactive_indices' = pl.inactive_indices
    /\ particle_counts' = pl.particle_counts

PoolRest == UNCHANGED <<gridVars, fall_into_void, branches, scanVars, host>>

Slots == DOMAIN particles

\* no active particle has been updated yet
AllFresh == \A k \in 1 .. Len(active_indices) : particles[active_indices[k]].action_iterations = 0

ScnAfterSpawn(ok) ==
    CASE hist.scn = "freed" -> IF ok THEN "respawned" ELSE "broken"
      [] hist.scn = "respawned" -> IF ok THEN "broken" ELSE "refused"
      [] OTHER -> "none"

Spawn(types, x, y) ==
    \E t \in types :
        LET r == add_active_particle(Pool, t, x * FP, y * FP, xy_to_index(x, y)) IN
        /\ SetPool(r.pool)
        /\ last' = [op |-> "spawn", idx |-> r.idx,
                    reused |-> IsSome(r.idx) /\ Unwrap(r.idx) \in hist.dirty]
        /\ hist' = [dirty |-> hist.dirty \cup Dirty(r.pool.particles),
                    scn |-> ScnAfterSpawn(IsSome(r.idx))]
        /\ PoolRest

Deactivate ==
    \E i \in Slots :
        LET pl == make_particle_inactive(Pool, i) IN
        /\ SetPool(pl)
        /\ last' = [op |-> "deactivate", idx |-> i, was_active |-> particles[i].active]
        /\ hist' = [dirty |-> hist.dirty \cup Dirty(pl.particles),
                    scn |-> IF inactive_indices = << >> /\ particles[i].active
                            THEN "freed" ELSE "none"]
        /\ PoolRest

Reinitialize(types) ==
    \E i \in Slots, t \in types :
        LET pl == reinitialize_particle(Pool, i, t) IN
        /\ SetPool(pl)
        /\ last' = [op |-> "retype", idx |-> i, was_active |-> particles[i].active]
        /\ hist' = [dirty |-> hist.dirty \cup Dirty(pl.particles), scn |-> "none"]
        /\ PoolRest

Pass(g, cap) ==
    /\ active_indices # << >>
    /\ \A k \in 1 .. Len(active_indices) : particles[active_indices[k]].action_iterations < cap
    /\ \E ds \in PassDraws(Pool, g) :
           LET pl == update_particles(Pool, ds, elements) IN
           /\ SetPool(pl)
           /\ last' = [op |-> "pass",
                       removed |-> {i \in Slots : particles[i].active /\ ~pl.particles[i].active}]
           /\ hist' = [dirty |-> hist.dirty \cup Dirty(pl.particles), scn |-> "none"]
    /\ PoolRest

PoolInitWith(n, w, h, grids) ==
    /\ width = w /\ height = h
    /\ elements \in grids
    /\ fall_into_void = FALSE
    /\ particles = DefaultPool(n).particles
    /\ active_indices = DefaultPool(n).active_indices
    /\ inactive_indices = DefaultPool(n).inactive_indices
    /\ particle_counts = DefaultPool(n).particle_counts
    /\ branches = << >>
    /\ NoScan
    /\ last = NoLast
    /\ host = NoHost
    /\ hist = [dirty |-> {}, scn |-> "none"]

\* a w x h canvas with a wall along row y
WallRow(w, h, y) == [i \in 0 .. (w * h - 1) |-> IF i \div w = y THEN "Wall" ELSE "Background"]

(* SpecPool: the bookkeeping operations alone, every archetype spawned, retypes *)
(* to the first, a middle and the last archetype.                               *)
PoolDim == 3
RetypeTargets == {"Unknown", "Tree", "Nuke"}
PoolInit == PoolInitWith(MAX_NUM_PARTICLES, PoolDim, PoolDim, {new(PoolDim, PoolDim)})
PoolSpawn == Spawn(ParticleTypeSet, PoolDim - 1, PoolDim - 1)
PoolDeactivate == Deactivate
PoolReinitialize == Reinitialize(RetypeTargets)
PoolNext == PoolSpawn \/ PoolDeactivate \/ PoolReinitialize
SpecPool == PoolInit /\ [][PoolNext]_vars

Range(q) == {q[k] : k \in 1 .. Len(q)}

\* C2: add_active_particle succeeds iff the free list is non-empty; a success
\* moves exactly one slot (the one returned) from the free list to the active
\* list and touches no other slot; a spawn on a full pool returns None and
\* leaves slots, both lists and counts unchanged; and from a full pool, after
\* exactly one deactivation, the next spawn succeeds and the one after it is
\* refused (the scenario monitor never reaches "broken").
C2_SpawnStep ==
    last'.op = "spawn" =>
        /\ IsSome(last'.idx) <=> inactive_indices # << >>
        /\ IsSome(last'.idx) =>
              LET i == Unwrap(last'.idx) IN
              /\ i \in Range(inactive_indices) /\ i \notin Range(active_indices)
              /\ Range(inactive_indices') = Range(inactive_indices) \ {i}
              /\ Len(inactive_indices') = Len(inactive_indices) - 1
              /\ Range(active_indices') = Range(active_indices) \cup {i}
              /\ Len(active_indices') = Len(active_indices) + 1
              /\ particles'[i].active /\ ~particles[i].active
              /\ \A j \in Slots \ {i} : particles'[j] = particles[j]
        /\ ~IsSome(last'.idx) => UNCHANGED poolVars
        /\ hist'.scn # "broken"

C2_SpawnIffFree == [][C2_SpawnStep]_vars

C2_Witness ==
    /\ hist.scn = "refused"
    /\ last.op = "spawn" /\ last.idx = None
    /\ inactive_indices = << >>

RECURSIVE SumCounts(_, _)
SumCounts(counts, k) == IF k < 0 THEN 0 ELSE counts[k] + SumCounts(counts, k - 1)

ActiveOfType(t) == {i \in Slots : particles[i].active /\ particles[i].particle_type = t}

\* C4: for every archetype T the live count of T equals the number of active
\* slots of archetype T, particle_active(T) holds iff some active particle has
\* archetype T, no count is ever below zero, and the counts sum to the length
\* of the active list.
C4_CountsExact ==
    /\ \A t \in ParticleTypeSet :
          /\ particle_count(Pool, t) = Cardinality(ActiveOfType(t))
          /\ particle_active(Pool, t) <=> ActiveOfType(t) # {}
          /\ particle_count(Pool, t) >= 0
    /\ DOMAIN particle_counts = 0 .. 10
    /\ SumCounts(particle_counts, 10) = Len(active_indices)

C4_Witness ==
    /\ last.op = "retype" /\ last.was_active
    /\ particle_count(Pool, "Nuke") = 2
    /\ ~particle_active(Pool, "Tree")

-----------------------------------------------------------------------------
(* SpecData: every archetype spawned at the bottom right cell of a small       *)
(* canvas (empty, or with a wall along its top row), initialised and updated   *)
(* by particle passes, deactivated and retyped.  Spawns and retypes are issued *)
(* while no active particle has been updated yet.                              *)
DataCapacity == 1
DataDim == 4
DataMaxIterations == 6
DataDraws == Draws({0}, BOOLEAN, EndDraws)
DataInit ==
    PoolInitWith(DataCapacity, DataDim, DataDim,
                 {new(DataDim, DataDim), WallRow(DataDim, DataDim, 0)})
DataSpawn == AllFresh /\ Spawn(ParticleTypeSet, DataDim - 1, DataDim - 1)
DataDeactivate == Deactivate
DataReinitialize == AllFresh /\ Reinitialize(RetypeTargets)
DataPass == Pass(DataDraws, DataMaxIterations)
DataNext == DataSpawn \/ DataDeactivate \/ DataReinitialize \/ DataPass
SpecData == DataInit /\ [][DataNext]_vars

-----------------------------------------------------------------------------
(* SpecTree: tree particles spawned at the bottom of a tall canvas (empty, or  *)
(* with a wall along a row above the spawn cell), so that a tree lives long    *)
(* enough to branch inside a pass.  Spawns and retypes are issued while no     *)
(* active particle has been updated yet.                                       *)
TreeCapacity == 2
TreeWidth == 8
TreeHeight == 15
TreeWallGap == 4
TreeMaxIterations == 16
TreeTypes == {"Tree", "Unknown"}
\* the trees differ in their type (2 or 3 children): draw b2
TreeDraws == [Draws({0}, {TRUE}, {0}) EXCEPT !.b2 = BOOLEAN]
TreeInit ==
    PoolInitWith(TreeCapacity, TreeWidth, TreeHeight,
                 {new(TreeWidth, TreeHeight),
                  WallRow(TreeWidth, TreeHeight, TreeHeight - 1 - TreeWallGap)})
TreeSpawn == AllFresh /\ Spawn(TreeTypes, TreeWidth - 2, TreeHeight - 1)
TreeDeactivate == Deactivate
TreeReinitialize == AllFresh /\ Reinitialize(TreeTypes)
TreePass == Pass(TreeDraws, TreeMaxIterations)
TreeNext == TreeSpawn \/ TreeDeactivate \/ TreeReinitialize \/ TreePass
SpecTree == TreeInit /\ [][TreeNext]_vars

NoDuplicates(q) == Cardinality(Range(q)) = Len(q)

\* C3: every slot index occurs exactly once in exactly one of the active list
\* and the free list, a slot's active flag is true iff the slot is in the active
\* list, and the number of slots stays the capacity fixed at allocation, after
\* any sequence of spawns, deactivations, retypes and particle passes (tree
\* particles spawning children inside a pass included).
C3_SlotPartition ==
    /\ DOMAIN particles = 0 .. (TreeCapacity - 1)
    /\ NoDuplicates(active_indices) /\ NoDuplicates(inactive_indices)
    /\ Range(active_indices) \cap Range(inactive_indices) = {}
    /\ Range(active_indices) \cup Range(inactive_indices) = DOMAIN particles
    /\ \A i \in DOMAIN particles : particles[i].active <=> i \in Range(active_indices)

\* a pass in which a tree created a child (only the branching loop sets
\* generation 2 on a particle that has not been updated yet) and was removed
C3_Witness ==
    /\ last.op = "pass"
    /\ \E i \in Slots :
          /\ particles[i].active /\ particles[i].particle_type = "Tree"
          /\ particles[i].tree_generation = Some(2)
          /\ particles[i].action_iterations = 0
          /\ i \notin last.removed
    /\ last.removed # {}

\* C5: every inactive slot holds the default value of every field (archetype
\* Unknown, every archetype-specific optional field empty), in particular the
\* slot just handed to make_particle_inactive; and a slot just activated by
\* add_active_particle has every archetype-specific field empty, whatever its
\* previous occupant had set.
C5_InactiveHoldsNoData ==
    /\ \A i \in Slots : ~particles[i].active => particles[i] = DefaultParticle
    /\ last.op = "deactivate" => particles[last.idx] = DefaultParticle
    /\ (last.op = "spawn" /\ IsSome(last.idx)) =>
          /\ \A f \in OptionFields : particles[Unwrap(last.idx)][f] = None
          /\ particles[Unwrap(last.idx)].active

\* a spawn that re-activated a slot whose earlier occupant had archetype data
C5_Witness ==
    /\ last.op = "spawn" /\ IsSome(last.idx) /\ last.reused
    /\ particles[Unwrap(last.idx)].particle_type = "Methane"

-----------------------------------------------------------------------------
(* simulation/physics.rs: neighbourhood probes.  Each returns an Option<usize>; *)
(* coin is the gen_bool(0.5) of pick_rand_valid.                                *)
pick_rand_valid(a, b, coin) ==
    IF IsSome(a) /\ IsSome(b) THEN (IF coin THEN a ELSE b)
    ELSE IF IsSome(a) THEN a
    ELSE IF IsSome(b) THEN b
    ELSE None

below(els, y, i, target) ==
    IF y >= max_y THEN None
    ELSE IF i + width < len(els) /\ get_index(els, i + width) = target
         THEN Some(i + width) ELSE None

below_adjacent(els, x, y, i, target) ==
    LET below_idx == i + width IN
    IF y >= max_y THEN None
    ELSE IF below_idx < len(els) /\ get_index(els, below_idx) = target
         THEN Some(below_idx)
    ELSE IF x > 0 /\ below_idx - 1 < len(els) /\ get_index(els, below_idx - 1) = target
         THEN Some(below_idx - 1)
    ELSE IF x < max_x /\ below_idx + 1 < len(els) /\ get_index(els, below_idx + 1) = target
         THEN Some(below_idx + 1)
    ELSE None

\* i.saturating_sub(width)
AboveIdx(i) == Max(i - width, 0)

above(els, y, i, target) ==
    IF y = 0 THEN None
    ELSE IF get_index(els, AboveIdx(i)) = target THEN Some(AboveIdx(i)) ELSE None

\* above_idx - 1 on a usize: a panic (debug) or a wrap-around (release) when
\* above_idx is 0, which needs y = 1 and x > 0 at i = 0 and so never happens for
\* i = y * width + x
above_adjacent(els, x, y, i, target) ==
    LET above_idx == AboveIdx(i) IN
    IF y = 0 THEN None
    ELSE IF get_index(els, above_idx) = target THEN Some(above_idx)
    ELSE IF x > 0 /\ above_idx >= 1 /\ get_index(els, above_idx - 1) = target
         THEN Some(above_idx - 1)
    ELSE IF x < max_x /\ above_idx + 1 < len(els) /\ get_index(els, above_idx + 1) = target
         THEN Some(above_idx + 1)
    ELSE None

\* an adjacent that does not look at the column it is in
adjacent_NoEdge(els, x, i, target, coin) ==
    pick_rand_valid(
        IF i >= 1 /\ get_index(els, i - 1) = target THEN Some(i - 1) ELSE None,
        IF i + 1 < len(els) /\ get_index(els, i + 1) = target THEN Some(i + 1) ELSE None,
        coin)

adjacent(els, x, i, target, coin) ==
    pick_rand_valid(
        IF x > 0 /\ get_index(els, i - 1) = target THEN Some(i - 1) ELSE None,
        IF x < max_x /\ get_index(els, i + 1) = target THEN Some(i + 1) ELSE None,
        coin)

bordering(els, x, y, i, target, coin) ==
    IF y < max_y /\ get_index(els, i + width) = target THEN Some(i + width)
    ELSE IF IsSome(adjacent(els, x, i, target, coin)) THEN adjacent(els, x, i, target, coin)
    ELSE IF y > 0 THEN above(els, y, i, target)
    ELSE None

bordering_adjacent(els, x, y, i, target, coin) ==
    IF y < max_y /\ IsSome(below_adjacent(els, x, y, i, target))
    THEN below_adjacent(els, x, y, i, target)
    ELSE IF IsSome(adjacent(els, x, i, target, coin)) THEN adjacent(els, x, i, target, coin)
    ELSE IF y > 0 THEN above_adjacent(els, x, y, i, target)
    ELSE None

(* The movement rules.  ok is the outcome of the rule's gen_bool(chance); each *)
(* returns [grid, moved].                                                       *)
Unmoved(els) == [grid |-> els, moved |-> FALSE]

\* the element at i moves to new_idx and leaves `left` behind
MoveTo(els, i, new_idx, left) ==
    [grid |-> set_index(set_index(els, new_idx, get_index(els, i)), i, left),
     moved |-> TRUE]

\* a do_gravity that looks sideways before it looks below
GravityTarget_AdjacentFirst(els, x, y, i, fall_adjacent, coin) ==
    IF fall_adjacent
    THEN (IF IsSome(adjacent(els, x, i, "Background", coin))
          THEN adjacent(els, x, i, "Background", coin)
          ELSE below_adjacent(els, x, y, i, "Background"))
    ELSE below(els, y, i, "Background")

\* the destination of do_gravity
GravityTarget(els, x, y, i, fall_adjacent, coin) ==
    IF fall_adjacent
    THEN (IF IsSome(below_adjacent(els, x, y, i, "Background"))
          THEN below_adjacent(els, x, y, i, "Background")
          ELSE adjacent(els, x, i, "Background", coin))
    ELSE below(els, y, i, "Background")

\* do_gravity without the write that empties the source cell
do_gravity_NoClear(els, x, y, i, fall_adjacent, ok, coin, fiv) ==
    IF ~ok THEN Unmoved(els)
    ELSE IF y >= max_y THEN Unmoved(els)
    ELSE IF IsSome(GravityTarget(els, x, y, i, fall_adjacent, coin))
         THEN [grid |-> set_index(els, Unwrap(GravityTarget(els, x, y, i, fall_adjacent, coin)),
                                  get_index(els, i)),
               moved |-> TRUE]
    ELSE Unmoved(els)

do_gravity(els, x, y, i, fall_adjacent, ok, coin, fiv) ==
    IF ~ok THEN Unmoved(els)
    ELSE IF y >= max_y
         THEN (IF fiv THEN [grid |-> set_index(els, i, "Background"), moved |-> TRUE]
               ELSE Unmoved(els))
    ELSE IF IsSome(GravityTarget(els, x, y, i, fall_adjacent, coin))
         THEN MoveTo(els, i, Unwrap(GravityTarget(els, x, y, i, fall_adjacent, coin)),
                     "Background")
    ELSE Unmoved(els)

SinkTarget(els, x, y, i, lighter_than, sink_adjacent) ==
    IF sink_adjacent THEN below_adjacent(els, x, y, i, lighter_than)
    ELSE below(els, y, i, lighter_than)

do_density_sink(els, x, y, i, lighter_than, sink_adjacent, ok) ==
    IF ~ok THEN Unmoved(els)
    ELSE IF y >= max_y THEN Unmoved(els)
    ELSE IF IsSome(SinkTarget(els, x, y, i, lighter_than, sink_adjacent))
         THEN MoveTo(els, i, Unwrap(SinkTarget(els, x, y, i, lighter_than, sink_adjacent)),
                     lighter_than)
    ELSE Unmoved(els)

\* sink and equalize are the two gen_bool draws; the second is only consumed when
\* the first found nothing
LiquidTarget(els, x, y, i, heavier_than, sink, equalize, coin) ==
    IF sink /\ IsSome(below_adjacent(els, x, y, i, heavier_than))
    THEN below_adjacent(els, x, y, i, heavier_than)
    ELSE IF equalize THEN adjacent(els, x, i, heavier_than, coin)
    ELSE None

do_density_liquid(els, x, y, i, heavier_than, sink, equalize, coin) ==
    IF IsSome(LiquidTarget(els, x, y, i, heavier_than, sink, equalize, coin))
    THEN MoveTo(els, i, Unwrap(LiquidTarget(els, x, y, i, heavier_than, sink, equalize, coin)),
                heavier_than)
    ELSE Unmoved(els)

(* Tree branches (TreeBranch, ActiveTreeBranches).  t holds the draws of       *)
(* start_tree_generation: u1 the angle, k1 the spacing, k2 the branch budget,  *)
(* b1 the tree type.                                                           *)
start_tree_generation(bs, start_x, start_y, t) ==
    Append(bs, [x |-> start_x * FP,
                y |-> start_y * FP,
                angle |-> -16 - 4 + t.u1 * 4,
                generation |-> 1,
                max_branches |-> 1 + FromRange(0, 2, t.k2),
                branch_spacing |-> 15 + FromRange(0, 45, t.k1),
                next_branch |-> 15 + FromRange(0, 45, t.k1),
                branches_created |-> 0,
                tree_type |-> IF t.b1 THEN 0 ELSE 1,
                iterations |-> 0])

\* the outcome of one branch's turn in the loop of process_tree_branches: the
\* grid, the branch, whether its index goes to branches_to_remove, the branches
\* it pushes to new_branches, what its step met and the cell it landed on
BranchTurn(els, b, remove, children, met, cell) ==
    [grid |-> els, branch |-> b, remove |-> remove, new |-> children, met |-> met,
     cell |-> cell]

\* the last check of the loop body: a branch that has used its budget ends
BranchFinish(els, b, new_idx, children) ==
    IF b.branches_created >= b.max_branches
    THEN BranchTurn(IF get_index(els, new_idx) = "Branch" THEN set_index(els, new_idx, "Leaf")
                    ELSE els,
                    b, TRUE, children, "grown", new_idx)
    ELSE BranchTurn(els, b, FALSE, children, "grown", new_idx)

\* a child that takes over the parent's budget whole
BranchChildOf_SameBudget(b, angle) ==
    [x |-> b.x, y |-> b.y, angle |-> angle,
     generation |-> b.generation + 1,
     max_branches |-> b.max_branches,
     branch_spacing |-> (b.branch_spacing * 9) \div 10,
     next_branch |-> (b.branch_spacing * 9) \div 10,
     branches_created |-> 0,
     tree_type |-> b.tree_type,
     iterations |-> 0]

BranchChildOf(b, angle) ==
    [x |-> b.x, y |-> b.y, angle |-> angle,
     generation |-> b.generation + 1,
     max_branches |-> Max(b.max_branches - 1, 0),
     branch_spacing |-> (b.branch_spacing * 9) \div 10,
     next_branch |-> (b.branch_spacing * 9) \div 10,
     branches_created |-> 0,
     tree_type |-> b.tree_type,
     iterations |-> 0]

\* the parent after it has branched: spacing above 45 shrinks, next_branch moves on
BranchRescheduled(b, d) ==
    LET spacing == IF b.branch_spacing > 45 THEN (b.branch_spacing * 8) \div 10
                   ELSE b.branch_spacing
    IN  [b EXCEPT !.branch_spacing = spacing,
                  !.next_branch = b.iterations + (spacing * (650 + 175 * d.u3)) \div 1000]

\* the branch b has moved to new_idx and stamped it
BranchGrow(els, b, new_idx, d) ==
    IF b.iterations >= b.next_branch
    THEN IF b.max_branches = 0
         THEN BranchTurn(IF get_index(els, new_idx) = "Branch"
                         THEN set_index(els, new_idx, "Leaf") ELSE els,
                         [b EXCEPT !.branches_created = @ + 1], TRUE, << >>, "grown", new_idx)
         ELSE BranchFinish(els,
                           BranchRescheduled([b EXCEPT !.branches_created = @ + 1], d),
                           new_idx,
                           << BranchChildOf(b, b.angle + 4 + d.u2 * 4),
                              BranchChildOf(b, b.angle - (4 + d.u2 * 4)) >>)
    ELSE BranchFinish(els, b, new_idx, << >>)

\* a step that goes on through a wall cell as through any other
BranchLand_ThroughWalls(els, b, new_x, new_y, d) ==
    LET new_idx == xy_to_index(TruncU32(new_x), TruncU32(new_y)) IN
    IF new_x < 0 \/ new_x >= width * FP \/ new_y < 0 \/ new_y >= height * FP
    THEN BranchTurn(els, b, TRUE, << >>, "edge", new_idx)
    ELSE IF new_idx >= len(els)
    THEN BranchTurn(els, b, TRUE, << >>, "edge", new_idx)
    ELSE BranchGrow(IF get_index(els, new_idx) = "Background"
                    THEN set_index(els, new_idx, "Branch") ELSE els,
                    [b EXCEPT !.x = new_x, !.y = new_y], new_idx,
                    d)

\* the step to (new_x, new_y) of the branch b, whose iterations are counted already
BranchLand(els, b, new_x, new_y, d) ==
    LET new_idx == xy_to_index(TruncU32(new_x), TruncU32(new_y)) IN
    IF new_x < 0 \/ new_x >= width * FP \/ new_y < 0 \/ new_y >= height * FP
    THEN BranchTurn(els, b, TRUE, << >>, "edge", new_idx)
    ELSE IF new_idx >= len(els)
    THEN BranchTurn(els, b, TRUE, << >>, "edge", new_idx)
    ELSE IF get_index(els, new_idx) = "Wall"
    THEN BranchTurn(els, b, TRUE, << >>, "wall", new_idx)
    ELSE BranchGrow(IF get_index(els, new_idx) = "Background"
                    THEN set_index(els, new_idx, "Branch") ELSE els,
                    [b EXCEPT !.x = new_x, !.y = new_y], new_idx, d)

\* d.u1 is the draw of the velocity
BranchVelocity(d) == FP + Scaled(d.u1, FP \div 2)

\* the loop body for the branch b with the draws d
BranchStep(els, b, d) ==
    BranchLand(els, [b EXCEPT !.iterations = @ + 1],
               b.x + TruncDiv(BranchVelocity(d) * Cos1000(b.angle), 1000),
               b.y + TruncDiv(BranchVelocity(d) * Sin1000(b.angle), 1000), d)

\* the state the loop carries: the grid, the branches as updated so far,
\* branches_to_remove, new_branches, and what each turn met and where
BranchLoopInit(els) ==
    [grid |-> els, branches |-> << >>, to_remove |-> << >>, new |-> << >>, turns |-> << >>]

BranchLoopAfter(st, k, r) ==
    [grid |-> r.grid,
     branches |-> Append(st.branches, r.branch),
     to_remove |-> IF r.remove THEN Append(st.to_remove, k) ELSE st.to_remove,
     new |-> st.new \o r.new,
     turns |-> Append(st.turns, [met |-> r.met, cell |-> r.cell, children |-> Len(r.new),
                                 stamped |-> r.grid # st.grid])]

\* the turns in the order of the list; each turn's outcome r and the state nx
\* it leaves are values before the next turn reads them
RECURSIVE BranchLoop(_, _, _, _)
BranchLoop(st, bs, ds, k) ==
    IF k > Len(bs) THEN st
    ELSE CHOOSE out \in
             { BranchLoop(nx, bs, ds, k + 1) :
                 nx \in { BranchLoopAfter(st, k, r) :
                            r \in {BranchStep(st.grid, bs[k], ds[k])} } } : TRUE

\* Vec::remove at the indices of to_remove, last first
RECURSIVE RemoveBranches(_, _, _)
RemoveBranches(bs, to_remove, n) ==
    IF n = 0 THEN bs
    ELSE CHOOSE out \in { RemoveBranches(cut, to_remove, n - 1) :
                             cut \in {[j \in 1 .. Len(bs) - 1 |->
                                         IF j < to_remove[n] THEN bs[j] ELSE bs[j + 1]]} } :
             TRUE

BranchLoopEnd(st) ==
    [grid |-> st.grid,
     branches |-> RemoveBranches(st.branches, st.to_remove, Len(st.to_remove)) \o st.new,
     to_remove |-> st.to_remove,
     turns |-> st.turns]

\* ds holds the draws of each branch's turn: u1 velocity, u2 branching angle,
\* u3 the next spacing
process_tree_branches(els, bs, ds) ==
    BranchLoopEnd(BranchLoop(BranchLoopInit(els), bs, ds, 1))

\* the sequences of n draw records
RECURSIVE BranchDraws(_, _)
BranchDraws(n, g) ==
    IF n = 0 THEN { << >> }
    ELSE { Append(q, d) : q \in BranchDraws(n - 1, g), d \in g }

(* execute_element_action.  d holds the outcomes of the arm's gen_bool draws in *)
(* the order the code makes them (c1, c2, ...) and the coin of pick_rand_valid: *)
(* within one arm at most one probe that tossed the coin is acted upon.         *)
SandArm(els, x, y, i, d, fiv) ==
    LET s1 == do_density_sink(els, x, y, i, "Water", TRUE, d.c1)
        s2 == do_density_sink(els, x, y, i, "SaltWater", TRUE, d.c2)
    IN  IF y < max_y /\ s1.moved THEN s1.grid
        ELSE IF y < max_y /\ s2.moved THEN s2.grid
        ELSE do_gravity(els, x, y, i, TRUE, d.c3, d.coin, fiv).grid

WaterArm(els, x, y, i, d, fiv) ==
    LET l == do_density_liquid(els, x, y, i, "Oil", d.c1, d.c2, d.coin)
    IN  IF l.moved THEN l.grid
        ELSE do_gravity(els, x, y, i, TRUE, d.c3, d.coin, fiv).grid

\* the methane step reads and writes the rock's old place, whatever do_gravity did
RockMethane(els, y, i, d) ==
    IF d.c4 /\ d.c5 /\ IsSome(above(els, y, i, "Oil"))
    THEN (IF d.c6 THEN set_index(els, Unwrap(above(els, y, i, "Oil")), "Methane")
          ELSE set_index(els, i, "Methane"))
    ELSE els

RockArm(els, x, y, i, d, fiv) ==
    LET s1 == do_density_sink(els, x, y, i, "Water", FALSE, d.c1)
        s2 == do_density_sink(els, x, y, i, "Oil", FALSE, d.c2)
    IN  IF y < max_y /\ s1.moved THEN s1.grid
        ELSE IF y < max_y /\ s2.moved THEN s2.grid
        ELSE RockMethane(do_gravity(els, x, y, i, FALSE, d.c3, d.coin, fiv).grid, y, i, d)

\* water_loc turns to Steam and the fire goes out
Extinguish(els, i, water_loc) ==
    set_index(set_index(els, water_loc, "Steam"), i, "Background")

\* the wax at wax_loc catches fire and drips below the lower of the two cells
WaxIgnite(els, y, i, wax_loc) ==
    LET lit == set_index(els, wax_loc, "Fire")
        b == below(lit, Max(index_to_xy(wax_loc)[2], y), Max(wax_loc, i), "Background")
    IN  IF IsSome(b) THEN set_index(lit, Unwrap(b), "FallingWax") ELSE lit

\* the flame-out scan of the 8 neighbours; oil_ok: one of the per-oil-cell
\* gen_bool(0.50) draws the scan makes succeeded
HasFlammable(els, x, y, oil_ok) ==
    \E yi \in Max(y - 1, 0) .. (Min(y + 2, max_y + 1) - 1) :
      \E xi \in Max(x - 1, 0) .. (Min(x + 2, max_x + 1) - 1) :
        /\ ~(yi = y /\ xi = x)
        /\ xy_to_index(xi, yi) < len(els)
        /\ LET elem == get_index(els, xy_to_index(xi, yi)) IN
              \/ elem \in {"Plant", "Fuse", "Branch", "Leaf"}
              \/ (xi = x \/ yi = y) /\ elem = "Wax"
              \/ elem = "Oil" /\ oil_ok

\* the spread steps with the oil step ahead of the rise
FireSpread_OilFirst(els, x, y, i, d) ==
    IF d.c2 /\ IsSome(bordering_adjacent(els, x, y, i, "Plant", d.coin))
    THEN set_index(els, Unwrap(bordering_adjacent(els, x, y, i, "Plant", d.coin)), "Fire")
    ELSE IF d.c3 /\ IsSome(bordering_adjacent(els, x, y, i, "Fuse", d.coin))
    THEN set_index(els, Unwrap(bordering_adjacent(els, x, y, i, "Fuse", d.coin)), "Fire")
    ELSE IF d.c4 /\ IsSome(bordering_adjacent(els, x, y, i, "Branch", d.coin))
    THEN set_index(els, Unwrap(bordering_adjacent(els, x, y, i, "Branch", d.coin)), "Fire")
    ELSE IF d.c5 /\ IsSome(bordering_adjacent(els, x, y, i, "Leaf", d.coin))
    THEN set_index(els, Unwrap(bordering_adjacent(els, x, y, i, "Leaf", d.coin)), "Fire")
    ELSE IF d.c6 /\ IsSome(bordering(els, x, y, i, "Wax", d.coin))
    THEN WaxIgnite(els, y, i, Unwrap(bordering(els, x, y, i, "Wax", d.coin)))
    ELSE IF d.c8 /\ IsSome(bordering_adjacent(els, x, y, i, "Oil", d.coin))
    THEN set_index(els, Unwrap(bordering_adjacent(els, x, y, i, "Oil", d.coin)), "Fire")
    ELSE IF d.c7 /\ IsSome(above(els, y, i, "Background"))
    THEN set_index(els, Unwrap(above(els, y, i, "Background")), "Fire")
    ELSE IF d.c9 /\ ~HasFlammable(els, x, y, d.c10)
    THEN set_index(els, i, "Background")
    ELSE els

\* the spread steps after the extinguish step, in the code's order
FireSpread(els, x, y, i, d) ==
    IF d.c2 /\ IsSome(bordering_adjacent(els, x, y, i, "Plant", d.coin))
    THEN set_index(els, Unwrap(bordering_adjacent(els, x, y, i, "Plant", d.coin)), "Fire")
    ELSE IF d.c3 /\ IsSome(bordering_adjacent(els, x, y, i, "Fuse", d.coin))
    THEN set_index(els, Unwrap(bordering_adjacent(els, x, y, i, "Fuse", d.coin)), "Fire")
    ELSE IF d.c4 /\ IsSome(bordering_adjacent(els, x, y, i, "Branch", d.coin))
    THEN set_index(els, Unwrap(bordering_adjacent(els, x, y, i, "Branch", d.coin)), "Fire")
    ELSE IF d.c5 /\ IsSome(bordering_adjacent(els, x, y, i, "Leaf", d.coin))
    THEN set_index(els, Unwrap(bordering_adjacent(els, x, y, i, "Leaf", d.coin)), "Fire")
    ELSE IF d.c6 /\ IsSome(bordering(els, x, y, i, "Wax", d.coin))
    THEN WaxIgnite(els, y, i, Unwrap(bordering(els, x, y, i, "Wax", d.coin)))
    ELSE IF d.c7 /\ IsSome(above(els, y, i, "Background"))
    THEN set_index(els, Unwrap(above(els, y, i, "Background")), "Fire")
    ELSE IF d.c8 /\ IsSome(bordering_adjacent(els, x, y, i, "Oil", d.coin))
    THEN set_index(els, Unwrap(bordering_adjacent(els, x, y, i, "Oil", d.coin)), "Fire")
    ELSE IF d.c9 /\ ~HasFlammable(els, x, y, d.c10)
    THEN set_index(els, i, "Background")
    ELSE els

\* a fire arm that puts the fire out without looking at its first draw
FireArm_NoDraw(els, x, y, i, d) ==
    IF IsSome(bordering(els, x, y, i, "Water", d.coin))
    THEN Extinguish(els, i, Unwrap(bordering(els, x, y, i, "Water", d.coin)))
    ELSE IF IsSome(bordering(els, x, y, i, "SaltWater", d.coin))
    THEN Extinguish(els, i, Unwrap(bordering(els, x, y, i, "SaltWater", d.coin)))
    ELSE FireSpread(els, x, y, i, d)

FireArm(els, x, y, i, d) ==
    IF d.c1 /\ IsSome(bordering(els, x, y, i, "Water", d.coin))
    THEN Extinguish(els, i, Unwrap(bordering(els, x, y, i, "Water", d.coin)))
    ELSE IF d.c1 /\ IsSome(bordering(els, x, y, i, "SaltWater", d.coin))
    THEN Extinguish(els, i, Unwrap(bordering(els, x, y, i, "SaltWater", d.coin)))
    ELSE FireSpread(els, x, y, i, d)

\* the tree step of the wet soil arm: room above, soil or wall below
TreeCanStart(els, x, y, i) ==
    /\ IsSome(above_adjacent(els, x, y, i, "Background"))
    /\ \/ IsSome(below_adjacent(els, x, y, i, "Soil"))
       \/ IsSome(below_adjacent(els, x, y, i, "Wall"))

\* the wet soil arm after its absorb step, on the grid els that step left; d.c5,
\* d.c6 and d.c7 are the draws of 0.05, 0.97 and 0.35
WetSoilRest(els, bs, x, y, i, d, t, fiv) ==
    LET gr == do_gravity(els, x, y, i, FALSE, d.c2, d.coin, fiv)
        s1 == do_density_sink(els, x, y, i, "Water", TRUE, d.c3)
        s2 == do_density_sink(els, x, y, i, "SaltWater", TRUE, d.c4)
    IN  IF gr.moved THEN [grid |-> gr.grid, branches |-> bs]
        ELSE IF s1.moved THEN [grid |-> s1.grid, branches |-> bs]
        ELSE IF s2.moved THEN [grid |-> s2.grid, branches |-> bs]
        ELSE IF d.c5 /\ d.c6 /\ ~IsSome(bordering_adjacent(els, x, y, i, "Water", d.coin))
        THEN [grid |-> set_index(els, i, "Soil"), branches |-> bs]
        ELSE IF d.c5 /\ ~d.c6 /\ ~d.c7 /\ TreeCanStart(els, x, y, i)
        THEN [grid |-> set_index(els, i, "Soil"),
              branches |-> start_tree_generation(bs, x, y, t)]
        ELSE [grid |-> els, branches |-> bs]

\* d.c1 is the absorb draw: the water found above is taken off the grid
WetSoilArm(els, bs, x, y, i, d, t, fiv) ==
    WetSoilRest(IF d.c1 /\ IsSome(above_adjacent(els, x, y, i, "Water"))
                THEN set_index(els, Unwrap(above_adjacent(els, x, y, i, "Water")), "Background")
                ELSE els,
                bs, x, y, i, d, t, fiv)

\* do_producer: ok is its gen_bool(chance); the cells above, below, left and
\* right of i take `produce`, a cell that is not Background only when
\* overwrite_adjacent is set
Produced(els, idx, produce, overwrite_adjacent) ==
    IF overwrite_adjacent \/ get_index(els, idx) = "Background"
    THEN set_index(els, idx, produce) ELSE els

do_producer(els, x, y, i, produce, overwrite_adjacent, ok) ==
    LET up == IF y > 0 THEN Produced(els, AboveIdx(i), produce, overwrite_adjacent) ELSE els
        down == IF y < max_y /\ i + width < len(els)
                THEN Produced(up, i + width, produce, overwrite_adjacent) ELSE up
        left == IF x > 0 THEN Produced(down, i - 1, produce, overwrite_adjacent) ELSE down
        right == IF x < max_x /\ i + 1 < len(els)
                 THEN Produced(left, i + 1, produce, overwrite_adjacent) ELSE left
    IN  IF ok THEN [grid |-> right, moved |-> TRUE] ELSE Unmoved(els)

\* c1: the burn draw
BranchArm(els, x, y, i, d) ==
    IF d.c1 /\ IsSome(bordering_adjacent(els, x, y, i, "Fire", d.coin))
    THEN set_index(els, i, "Fire") ELSE els

\* c1: the burn draw, c2: the salt draw, c3 and c4: the two pollen draws
LeafArm(els, x, y, i, d) ==
    IF d.c1 /\ IsSome(bordering_adjacent(els, x, y, i, "Fire", d.coin))
    THEN set_index(els, i, "Fire")
    ELSE IF d.c2 /\ IsSome(bordering_adjacent(els, x, y, i, "Salt", d.coin))
    THEN set_index(els, i, "Background")
    ELSE IF d.c3 /\ d.c4 THEN do_producer(els, x, y, i, "Pollen", FALSE, TRUE).grid
    ELSE els

\* c3: the gravity draw
PollenArm(els, x, y, i, d, fiv) == do_gravity(els, x, y, i, TRUE, d.c3, d.coin, fiv).grid

\* the arms modelled here; the specifications below fire no other element
\* every neighbour there is, of the four that share an edge with i, holds target
surrounded_by(els, x, y, i, target) ==
    /\ y < max_y => get_index(els, i + width) = target
    /\ y > 0 => get_index(els, AboveIdx(i)) = target
    /\ x > 0 => get_index(els, i - 1) = target
    /\ (x < max_x /\ i + 1 < len(els)) => get_index(els, i + 1) = target

\* every neighbour there is, of the eight around i, holds target
surrounded_by_adjacent(els, x, y, i, target) ==
    LET below_idx == i + width
        above_idx == AboveIdx(i)
    IN  /\ y < max_y => get_index(els, below_idx) = target
        /\ y > 0 => get_index(els, above_idx) = target
        /\ x > 0 => /\ get_index(els, i - 1) = target
                    /\ y > 0 => get_index(els, above_idx - 1) = target
                    /\ (y < max_y /\ below_idx - 1 < len(els))
                         => get_index(els, below_idx - 1) = target
        /\ x < max_x => /\ i + 1 < len(els) => get_index(els, i + 1) = target
                        /\ (y > 0 /\ above_idx + 1 < len(els))
                             => get_index(els, above_idx + 1) = target
                        /\ (y < max_y /\ below_idx + 1 < len(els))
                             => get_index(els, below_idx + 1) = target

\* the ice arm after its surrounded_by test: the melting rules in their order
\* (water c1, steam c2 and the steam's own draw c3, salt c4, fire c5, lava c6)
IceRest(els, x, y, i, d) ==
    IF d.c1 /\ IsSome(bordering(els, x, y, i, "Water", d.coin))
    THEN set_index(els, i, "Water")
    ELSE IF d.c2 /\ IsSome(bordering(els, x, y, i, "Steam", d.coin))
    THEN (IF d.c3
          THEN set_index(set_index(els, i, "Water"),
                         Unwrap(bordering(els, x, y, i, "Steam", d.coin)), "Water")
          ELSE set_index(els, i, "Water"))
    ELSE IF d.c4 /\ (IsSome(bordering(els, x, y, i, "Salt", d.coin))
                     \/ IsSome(bordering(els, x, y, i, "SaltWater", d.coin)))
    THEN set_index(els, i, "Water")
    ELSE IF d.c5 /\ IsSome(bordering(els, x, y, i, "Fire", d.coin))
    THEN set_index(els, i, "Water")
    ELSE IF d.c6 /\ IsSome(bordering(els, x, y, i, "Lava", d.coin))
    THEN set_index(els, i, "Water")
    ELSE els

IceArm(els, x, y, i, d) ==
    IF surrounded_by(els, x, y, i, "Ice") THEN els ELSE IceRest(els, x, y, i, d)

\* idx turns to Fire when it holds Background
Ignited(els, idx) ==
    IF idx < len(els) /\ get_index(els, idx) = "Background"
    THEN set_index(els, idx, "Fire") ELSE els

\* the border burn of an exploding nitro: above, below, left, right, then i
NitroBurn(els, x, y, i) ==
    LET a == IF y > 0 THEN Ignited(els, AboveIdx(i)) ELSE els
        b == IF y < max_y THEN Ignited(a, i + width) ELSE a
        l == IF x > 0 THEN Ignited(b, i - 1) ELSE b
        r == IF x < max_x THEN Ignited(l, i + 1) ELSE l
    IN  set_index(r, i, "Fire")

\* the four sinks of the nitro arm (c4 to c7), the first that moves ends it
NitroSinks(els, x, y, i, d) ==
    LET s1 == do_density_sink(els, x, y, i, "Oil", TRUE, d.c4)
        s2 == do_density_sink(els, x, y, i, "Water", TRUE, d.c5)
        s3 == do_density_sink(els, x, y, i, "SaltWater", TRUE, d.c6)
        s4 == do_density_sink(els, x, y, i, "Pollen", TRUE, d.c7)
    IN  IF y >= max_y THEN els
        ELSE IF s1.moved THEN s1.grid
        ELSE IF s2.moved THEN s2.grid
        ELSE IF s3.moved THEN s3.grid
        ELSE s4.grid

\* the nitro arm after its surrounded_by test: fire in one of the eight cells
\* around explodes it (c2) or lights it (c3), else it sinks
NitroRest(els, x, y, i, d) ==
    IF IsSome(bordering_adjacent(els, x, y, i, "Fire", d.coin)) /\ d.c2
    THEN NitroBurn(els, x, y, i)
    ELSE IF IsSome(bordering_adjacent(els, x, y, i, "Fire", d.coin)) /\ d.c3
    THEN set_index(els, i, "Fire")
    ELSE NitroSinks(els, x, y, i, d)

NitroArm(els, x, y, i, d, fiv) ==
    LET g == do_gravity(els, x, y, i, TRUE, d.c1, d.coin, fiv) IN
    IF g.moved THEN g.grid
    ELSE IF surrounded_by(els, x, y, i, "Nitro") THEN els
    ELSE NitroRest(els, x, y, i, d)

\* the thermite arm after its surrounded_by_adjacent test: fire around it
\* lights it (c1), else it sinks (c2 to c4) or falls (c5)
ThermiteRest(els, x, y, i, d, fiv) ==
    LET s1 == do_density_sink(els, x, y, i, "Water", FALSE, d.c2)
        s2 == do_density_sink(els, x, y, i, "SaltWater", FALSE, d.c3)
        s3 == do_density_sink(els, x, y, i, "Oil", FALSE, d.c4)
    IN  IF d.c1 /\ IsSome(bordering_adjacent(els, x, y, i, "Fire", d.coin))
        THEN set_index(els, i, "BurningThermite")
        ELSE IF s1.moved THEN s1.grid
        ELSE IF s2.moved THEN s2.grid
        ELSE IF s3.moved THEN s3.grid
        ELSE do_gravity(els, x, y, i, FALSE, d.c5, d.coin, fiv).grid

ThermiteArm(els, x, y, i, d, fiv) ==
    IF surrounded_by_adjacent(els, x, y, i, "Thermite") THEN els
    ELSE ThermiteRest(els, x, y, i, d, fiv)

\* the cells of the 3 x 3 block around (x, y) that are on the grid, without i
CryoNear(els, x, y, i) ==
    { j \in DOMAIN els :
        /\ j # i
        /\ j \div width \in Max(y - 1, 0) .. (Min(y + 2, max_y + 1) - 1)
        /\ j % width \in Max(x - 1, 0) .. (Min(x + 2, max_x + 1) - 1) }

CryoFreezes == {"Water", "Ice", "Wall", "Wax", "Plant", "C4", "Lava"}

\* the cryo's reaction with the cell idx, the first of the block (row by row)
\* that holds something it reacts with; c1 and c2 are the chilled ice draws
CryoFreeze(els, i, idx, d) ==
    LET elem == get_index(els, idx) IN
    CASE elem = "Water" -> set_index(set_index(els, idx, "Ice"), i, "Ice")
      [] elem = "Ice" ->
           IF d.c1 /\ d.c2
           THEN set_index(set_index(els, idx, "ChilledIce"), i, "ChilledIce")
           ELSE set_index(set_index(els, idx, "Ice"), i, "Ice")
      [] elem = "Lava" -> set_index(set_index(els, i, "Background"), idx, "Rock")
      [] OTHER -> set_index(els, i, "Ice")

\* the freeze of a cryo with nothing to freeze (c4, c5): it reads and writes the
\* cryo's old place, whatever do_gravity did
CryoAlone(els, x, y, i, d) ==
    IF d.c4 /\ d.c5 /\ bordering(els, x, y, i, "Background", d.coin) = None
       /\ ~surrounded_by(els, x, y, i, "Cryo")
    THEN set_index(els, i, "Ice") ELSE els

CryoArm(els, x, y, i, d, fiv) ==
    LET hot == { j \in CryoNear(els, x, y, i) : els[j] \in CryoFreezes } IN
    IF hot # {}
    THEN CryoFreeze(els, i, CHOOSE j \in hot : \A k \in hot : j <= k, d)
    ELSE CryoAlone(do_gravity(els, x, y, i, TRUE, d.c3, d.coin, fiv).grid, x, y, i, d)

ActionElements ==
    {"Background", "Wall", "Sand", "Water", "Fire", "Rock", "Branch", "Leaf", "Pollen",
     "Ice", "Nitro", "Thermite", "Cryo"}

execute_element_action(els, x, y, i, d, fiv) ==
    LET element == get_index(els, i) IN
    CASE element = "Background" -> els
      [] element = "Wall" -> els
      [] element = "Sand" -> SandArm(els, x, y, i, d, fiv)
      [] element = "Water" -> WaterArm(els, x, y, i, d, fiv)
      [] element = "Fire" -> FireArm(els, x, y, i, d)
      [] element = "Rock" -> RockArm(els, x, y, i, d, fiv)
      [] element = "Branch" -> BranchArm(els, x, y, i, d)
      [] element = "Leaf" -> LeafArm(els, x, y, i, d)
      [] element = "Pollen" -> PollenArm(els, x, y, i, d, fiv)
      [] element = "Ice" -> IceArm(els, x, y, i, d)
      [] element = "Nitro" -> NitroArm(els, x, y, i, d, fiv)
      [] element = "Thermite" -> ThermiteArm(els, x, y, i, d, fiv)
      [] element = "Cryo" -> CryoArm(els, x, y, i, d, fiv)

\* the draws of one arm
ArmDraws == [c1 : BOOLEAN, c2 : BOOLEAN, c3 : BOOLEAN, c4 : BOOLEAN, c5 : BOOLEAN,
             c6 : BOOLEAN, c7 : BOOLEAN, c8 : BOOLEAN, c9 : BOOLEAN, c10 : BOOLEAN,
             coin : BOOLEAN]

-----------------------------------------------------------------------------
(* systems/mod.rs, run_simulation_frame: the frame's prologue, then the zigzag  *)
(* scan from the bottom row to the top one.  pc = "scan" while the loop runs;   *)
(* (scan_x, scan_y) is the next cell the loop will look at.                     *)

\* every spigot has size 0: each position is skipped
SpigotsOff == << 0, 0, 0, 0 >>

update_spigots_cpu(els, sizes) ==
    CASE \A k \in DOMAIN sizes : sizes[k] = 0 -> els

direction == max_y % 2

\* a scan that starts at the top row
ScanCell_TopDown(n) ==
    LET y == n \div (max_x + 1)
        k == n % (max_x + 1)
    IN  << IF y % 2 = direction THEN max_x - k ELSE k, y >>

\* a scan that goes through every row from right to left
ScanCell_OneWay(n) ==
    LET y == max_y - (n \div (max_x + 1))
        k == n % (max_x + 1)
    IN  << max_x - k, y >>

\* the n-th cell the loops look at: rows from max_y down to 0, a row of the
\* parity of max_y from right to left, the others from left to right
ScanCell(n) ==
    LET y == max_y - (n \div (max_x + 1))
        k == n % (max_x + 1)
    IN  << IF y % 2 = direction THEN max_x - k ELSE k, y >>

ScanLast == (max_x + 1) * (max_y + 1) - 1

\* the place of a cell in the scan order
ScanRank(x, y) == CHOOSE n \in 0 .. ScanLast : ScanCell(n) = << x, y >>

\* the places from the cursor on whose cell is not Background when looked at
ScanPending ==
    { n \in ScanRank(scan_x, scan_y) .. ScanLast :
        get_index(elements, xy_to_index(ScanCell(n)[1], ScanCell(n)[2])) # "Background" }

ScanNext == CHOOSE n \in ScanPending : \A m \in ScanPending : n <= m

\* the outcome of the arm's do_gravity draw, None when the arm returns before it
GravityDraw(els, x, y, i, d) ==
    LET element == get_index(els, i) IN
    CASE element = "Sand" ->
           IF y < max_y /\ (do_density_sink(els, x, y, i, "Water", TRUE, d.c1).moved
                            \/ do_density_sink(els, x, y, i, "SaltWater", TRUE, d.c2).moved)
           THEN None ELSE Some(d.c3)
      [] element = "Water" ->
           IF do_density_liquid(els, x, y, i, "Oil", d.c1, d.c2, d.coin).moved
           THEN None ELSE Some(d.c3)
      [] element = "Rock" ->
           IF y < max_y /\ (do_density_sink(els, x, y, i, "Water", FALSE, d.c1).moved
                            \/ do_density_sink(els, x, y, i, "Oil", FALSE, d.c2).moved)
           THEN None ELSE Some(d.c3)
      [] element = "Pollen" -> Some(d.c3)
      [] OTHER -> None

Count(els, t) == Cardinality({ i \in DOMAIN els : els[i] = t })

\* hist of a frame specification: the number of cells of each tag at the start,
\* counters (each stops at cap) of the frames begun and of the gravity draws
\* that succeeded and failed, and the Sand cells at the start of the frame
\* under way (kept only where the counters are, cap > 0)
FrameHist(els) ==
    [counts |-> [t \in Elements |-> Count(els, t)], ticks |-> 0, hits |-> 0, fails |-> 0,
     origin |-> {}]

Counted(h, gd, cap) ==
    [h EXCEPT !.hits = IF gd = Some(TRUE) THEN Min(@ + 1, cap) ELSE @,
              !.fails = IF gd = Some(FALSE) THEN Min(@ + 1, cap) ELSE @]

FrameRest == UNCHANGED << width, height, fall_into_void, poolVars, host >>

\* the draws of a branch's turn: u1 velocity, u2 branching angle, u3 next spacing
TurnDraws == [u1 : {0}, u2 : UnitDraws, u3 : UnitDraws]

\* the prologue on the grid els and the branches bs that the clear flag left
FramePrologue(els, bs, sizes, ds) ==
    LET r == process_tree_branches(els, bs, ds)
    IN  /\ elements' = update_spigots_cpu(r.grid, sizes)
        /\ branches' = r.branches

\* the prologue: the clear flag, the tree branches, the spigots
FrameStart(clear_grid, sizes, cap) ==
    /\ pc = "idle"
    /\ \E ds \in BranchDraws(IF clear_grid THEN 0 ELSE Len(branches), TurnDraws) :
         FramePrologue(IF clear_grid THEN clear(elements) ELSE elements,
                       IF clear_grid THEN << >> ELSE branches, sizes, ds)
    /\ pc' = "scan"
    /\ scan_x' = ScanCell(0)[1]
    /\ scan_y' = ScanCell(0)[2]
    /\ last' = [op |-> "frame"]
    /\ hist' = [hist EXCEPT !.ticks = Min(@ + 1, cap),
                            !.origin = IF cap > 0
                                       THEN { i \in DOMAIN elements : elements[i] = "Sand" }
                                       ELSE {}]
    /\ FrameRest

\* the loop skips Background cells up to the next other cell and runs its arm
Visit(x, y, d, cap) ==
    LET i == xy_to_index(x, y)
        after == execute_element_action(elements, x, y, i, d, fall_into_void)
    IN  /\ elements' = after
        /\ last' = [op |-> "visit", x |-> x, y |-> y, element |-> get_index(elements, i),
                    changed |-> after # elements]
        /\ hist' = Counted(hist, GravityDraw(elements, x, y, i, d), cap)
        /\ IF ScanRank(x, y) = ScanLast
           THEN pc' = "idle" /\ scan_x' = 0 /\ scan_y' = 0
           ELSE /\ pc' = "scan"
                /\ scan_x' = ScanCell(ScanRank(x, y) + 1)[1]
                /\ scan_y' = ScanCell(ScanRank(x, y) + 1)[2]

ScanVisit(g, cap) ==
    /\ pc = "scan"
    /\ ScanPending # {}
    /\ \E c \in {ScanCell(ScanNext)} : \E d \in g : Visit(c[1], c[2], d, cap)
    /\ UNCHANGED branches
    /\ FrameRest

\* only Background cells are left: the loop runs out and the frame returns
ScanEnd ==
    /\ pc = "scan"
    /\ ScanPending = {}
    /\ pc' = "idle"
    /\ scan_x' = 0
    /\ scan_y' = 0
    /\ last' = [op |-> "frame_end"]
    /\ UNCHANGED << elements, branches, hist >>
    /\ FrameRest

\* the draws of the movement arms on grids without oil and salt water: c1, c3
\* and the coin.  c2 belongs to a rule that looks for oil or salt water, c4 to c6
\* to the rock's methane step that looks for oil, the rest to the fire arm.
MoveDraws ==
    [c1 : BOOLEAN, c2 : {FALSE}, c3 : BOOLEAN, c4 : {FALSE}, c5 : {FALSE},
     c6 : {FALSE}, c7 : {FALSE}, c8 : {FALSE}, c9 : {FALSE}, c10 : {FALSE},
     coin : BOOLEAN]

FrameInitWith(w, h, grids, fiv) ==
    /\ width = w
    /\ height = h
    /\ elements \in grids
    /\ fall_into_void = fiv
    /\ NoPool
    /\ branches = << >>
    /\ NoScan
    /\ last = NoLast
    /\ host = NoHost
    /\ hist = FrameHist(elements)

-----------------------------------------------------------------------------
(* Frames over grids of walls, sand, rock and water: only the movement rules   *)
(* apply.  fall_into_void is off, the spigots are off, nothing is cleared.     *)
MoveWidth == 3
MoveHeight == 2
MoveCells == 2
MoveTags == {"Wall", "Sand", "Rock", "Water"}

RECURSIVE Placed(_, _, _, _)
\* the w x h grids holding at most k cells of the given tags
Placed(w, h, tags, k) ==
    IF k = 0 THEN {new(w, h)}
    ELSE LET fewer == Placed(w, h, tags, k - 1)
         IN  fewer \cup { [g EXCEPT ![i] = t] : g \in fewer, i \in 0 .. (w * h - 1), t \in tags }

MoveInit ==
    FrameInitWith(MoveWidth, MoveHeight, Placed(MoveWidth, MoveHeight, MoveTags, MoveCells), FALSE)

MoveFrameStart == FrameStart(FALSE, SpigotsOff, 0)

MoveScanVisit == ScanVisit(MoveDraws, 0)

MoveNext == MoveFrameStart \/ MoveScanVisit \/ ScanEnd

SpecMove == MoveInit /\ [][MoveNext]_vars

\* C6: with fall_into_void off and the spigots off, on a grid of walls, sand,
\* rock and water the number of cells of each non-background tag stays what it
\* was at the start, after every cell visit of every frame: tags only relocate
\* or swap, none appears or vanishes.
C6_TagsConserved ==
    \A t \in Elements \ {"Background"} : Count(elements, t) = hist.counts[t]

\* a sand cell has just sunk through water: the water is now where the sand was
C6_Witness ==
    /\ last.op = "visit"
    /\ last.element = "Sand"
    /\ last.changed
    /\ get(elements, last.x, last.y) = "Water"
    /\ hist.counts["Sand"] = 1 /\ hist.counts["Water"] = 1

-----------------------------------------------------------------------------
(* One sand cell in the top row of an empty square grid, fall_into_void off,   *)
(* spigots off: the frames that move it down.                                  *)
FallDim == 10
FallX == FallDim \div 2

\* the empty grid with one sand cell at (x, y)
OneSand(w, h, x, y) == [new(w, h) EXCEPT ![y * w + x] = "Sand"]

FallInit == FrameInitWith(FallDim, FallDim, {OneSand(FallDim, FallDim, FallX, 0)}, FALSE)

FallFrameStart == FrameStart(FALSE, SpigotsOff, FallDim + 1)

FallScanVisit == ScanVisit(MoveDraws, FallDim + 1)

FallNext == FallFrameStart \/ FallScanVisit \/ ScanEnd

SpecFall == FallInit /\ [][FallNext]_vars

\* C7: on the 10x10 grid with one sand cell at (5,0), between frames, while no
\* gravity draw has failed, after k <= 9 frames the sand is at (5,k) and every
\* other cell is Background; so after exactly 9 frames it is at (5,9).
C7_SandFallsOneRowPerTick ==
    (pc = "idle" /\ hist.fails = 0 /\ hist.ticks <= height - 1)
        => elements = OneSand(width, height, FallX, hist.ticks)

\* nine frames (height - 1) were run, no gravity draw failed, the sand is in the
\* bottom row
C7_Witness ==
    /\ pc = "idle"
    /\ hist.fails = 0
    /\ hist.ticks = height - 1
    /\ get(elements, FallX, max_y) = "Sand"

-----------------------------------------------------------------------------
(* One sand cell anywhere in a small grid whose other columns are empty or     *)
(* walled up, fall_into_void off: frames are run for ever, and the gravity     *)
(* draw of the sand's visit succeeds again and again.                          *)
SettleWidth == 3
SettleHeight == 3

\* the grid with walls in the columns of cols and one sand cell at (x, y)
WalledSand(w, h, cols, x, y) ==
    [i \in 0 .. (w * h - 1) |->
        IF i = y * w + x THEN "Sand"
        ELSE IF (i % w) \in cols THEN "Wall"
        ELSE "Background"]

SettleGrids ==
    { WalledSand(SettleWidth, SettleHeight, cols, x, y) :
        cols \in SUBSET (0 .. SettleWidth - 1), x \in 0 .. SettleWidth - 1,
        y \in 0 .. SettleHeight - 1 }

SettleInit ==
    /\ FrameInitWith(SettleWidth, SettleHeight,
                     { g \in SettleGrids : Count(g, "Wall") % SettleHeight = 0 }, FALSE)

SettleFrameStart == FrameStart(FALSE, SpigotsOff, SettleHeight + 1)

SettleScanVisit == ScanVisit(MoveDraws, SettleHeight + 1)

HitDraws == { d \in MoveDraws : d.c3 }

\* a visit of the sand cell whose gravity draw succeeds
SettleScanHit ==
    /\ pc = "scan"
    /\ ScanPending # {}
    /\ \E c \in {ScanCell(ScanNext)} : get(elements, c[1], c[2]) = "Sand"
    /\ ScanVisit(HitDraws, SettleHeight + 1)

SettleNext == SettleFrameStart \/ SettleScanVisit \/ ScanEnd

\* update_game_simulation runs a frame at every update, a frame's loop runs to
\* its end, and a gen_bool(0.95) that is drawn again and again does not fail
\* for ever
SpecSettle ==
    /\ SettleInit
    /\ [][SettleNext]_vars
    /\ WF_vars(SettleFrameStart)
    /\ WF_vars(SettleScanVisit)
    /\ WF_vars(ScanEnd)
    /\ SF_vars(SettleScanHit)

SandCells == { i \in DOMAIN elements : elements[i] = "Sand" }

SandColumns == { index_to_xy(i)[1] : i \in SandCells }

AtBottom == \A i \in SandCells : index_to_xy(i)[2] = max_y

\* C8: the single sand cell eventually is in the bottom row and stays there for
\* ever; the column it is in never changes; and once `height` gravity draws have
\* succeeded it is in the bottom row.
C8_SandSettles ==
    /\ <>[]AtBottom
    /\ [][SandColumns' = SandColumns]_vars
    /\ [](hist.hits >= height => AtBottom)

\* the sand is in the bottom row after gravity draws that succeeded and others
\* that failed, with walls on the grid
C8_Witness ==
    /\ AtBottom
    /\ Cardinality(SandCells) = 1
    /\ hist.hits = height - 1
    /\ hist.fails > 0
    /\ hist.ticks = height
    /\ hist.counts["Wall"] > 0

-----------------------------------------------------------------------------
(* The fire arm alone: a fire cell anywhere on a small grid, its four          *)
(* neighbours water, salt water, plant, wall or nothing; the arm is run on any *)
(* fire cell of the grid, FireVisits times.                                    *)
FireWidth == 3
FireHeight == 3
FireVisits == 2
FireTags == {"Background", "Water", "SaltWater", "Plant", "Wall"}

\* the four cells around (x, y) that are on the grid, as up, down, left, right
Around(w, h, x, y) ==
    [up |-> IF y > 0 THEN {(y - 1) * w + x} ELSE {},
     down |-> IF y < h - 1 THEN {(y + 1) * w + x} ELSE {},
     left |-> IF x > 0 THEN {y * w + x - 1} ELSE {},
     right |-> IF x < w - 1 THEN {y * w + x + 1} ELSE {}]

\* fire at (x, y) with the tags of f around it
FireAt(w, h, x, y, f) ==
    LET a == Around(w, h, x, y) IN
    [i \in 0 .. (w * h - 1) |->
        IF i = y * w + x THEN "Fire"
        ELSE IF i \in a.up THEN f.up
        ELSE IF i \in a.down THEN f.down
        ELSE IF i \in a.left THEN f.left
        ELSE IF i \in a.right THEN f.right
        ELSE "Background"]

FireGrids ==
    { FireAt(FireWidth, FireHeight, x, y, f) :
        x \in 0 .. FireWidth - 1, y \in 0 .. FireHeight - 1,
        f \in [up : FireTags, down : FireTags, left : FireTags, right : FireTags] }

\* the draws of the fire arm on these grids: extinguish (c1), plant (c2), rise
\* (c7), flame-out (c9) and the coin; the other draws belong to steps that look
\* for fuse, branch, leaf, wax or oil
FireDraws ==
    [c1 : BOOLEAN, c2 : BOOLEAN, c3 : {FALSE}, c4 : {FALSE}, c5 : {FALSE},
     c6 : {FALSE}, c7 : BOOLEAN, c8 : {FALSE}, c9 : BOOLEAN, c10 : {FALSE},
     coin : BOOLEAN]

FireInit == FrameInitWith(FireWidth, FireHeight, FireGrids, FALSE)

\* execute_element_action is called on a fire cell; hist.ticks counts the calls
FireVisit ==
    /\ hist.ticks < FireVisits
    /\ hist' = [hist EXCEPT !.ticks = @ + 1]
    /\ \E i \in DOMAIN elements : \E d \in FireDraws :
         /\ elements[i] = "Fire"
         /\ elements' = execute_element_action(elements, index_to_xy(i)[1], index_to_xy(i)[2],
                                               i, d, fall_into_void)
         /\ last' = [op |-> "fire", i |-> i, before |-> elements, extinguish |-> d.c1]
    /\ UNCHANGED << branches, scanVars >>
    /\ FrameRest

FireNext == FireVisit

SpecFire == FireInit /\ [][FireNext]_vars

\* the water cells that share an edge with cell i of the grid els
WaterAround(els, i) ==
    LET a == Around(width, height, index_to_xy(i)[1], index_to_xy(i)[2])
    IN  { j \in a.up \cup a.down \cup a.left \cup a.right : els[j] = "Water" }

\* C9: when the arm has run on a fire cell that had a water cell next to it
\* (above, below, left or right), then water turned to steam and the fire to
\* Background exactly when the extinguish draw succeeded; and when it did,
\* exactly one of the water cells next to the fire is Steam, the fire cell is
\* Background and every other cell is as before.
C9_ExtinguishIffDraw ==
    (last.op = "fire" /\ WaterAround(last.before, last.i) # {}) =>
        LET steamed == { j \in WaterAround(last.before, last.i) : elements[j] = "Steam" }
        IN  /\ (steamed # {} /\ elements[last.i] = "Background") <=> last.extinguish
            /\ last.extinguish =>
                 /\ Cardinality(steamed) = 1
                 /\ elements[last.i] = "Background"
                 /\ \A k \in DOMAIN elements :
                      k \notin steamed \cup {last.i} => elements[k] = last.before[k]

\* the draw succeeded on a fire with water both left and right of it: one of the
\* two is steam, the other still water, the fire is out
C9_Witness ==
    /\ last.op = "fire"
    /\ last.extinguish
    /\ Cardinality(WaterAround(last.before, last.i)) = 2
    /\ Cardinality(WaterAround(elements, last.i)) = 1
    /\ Count(elements, "Steam") = 1
    /\ elements[last.i] = "Background"

-----------------------------------------------------------------------------
(* Trees grown on the grid: a wet soil cell on a floor of soil, under open sky *)
(* or under a row of wall.  The wet soil arm runs on the wet soil cell and may *)
(* start a tree; the frame's call of process_tree_branches grows it.  The      *)
(* other cells of these grids do nothing when the scan visits them: the soil   *)
(* floor and the walls rest, branches and leaves only react to fire and salt.  *)
BranchWidth == 8
BranchHeight == 18
BranchWallGap == 5

\* a floor of soil in the bottom row, wet soil on it at column x, and a row of
\* wall in each row of rows
Orchard(w, h, x, rows) ==
    [i \in 0 .. (w * h - 1) |->
        IF i \div w = h - 1 THEN "Soil"
        ELSE IF i = (h - 2) * w + x THEN "WetSoil"
        ELSE IF (i \div w) \in rows THEN "Wall"
        ELSE "Background"]

BranchGrids ==
    { Orchard(BranchWidth, BranchHeight, x, rows) :
        x \in 0 .. BranchWidth - 1,
        rows \in {{}, {0}, {BranchHeight - 2 - BranchWallGap}} }

BranchInit == FrameInitWith(BranchWidth, BranchHeight, BranchGrids, FALSE)

\* the draws of the wet soil arm on these grids: gravity (c2) and the three of
\* the tree step (c5, c6, c7); c1, c3 and c4 belong to steps that look for water
WetSoilDraws ==
    [c1 : {FALSE}, c2 : BOOLEAN, c3 : {FALSE}, c4 : {FALSE}, c5 : BOOLEAN,
     c6 : BOOLEAN, c7 : BOOLEAN, coin : {FALSE}]

StartDraws == [u1 : UnitDraws, k1 : EndDraws, k2 : EndDraws, b1 : BOOLEAN]

\* the wet soil arm with the grid and the branches it leaves
WetSoilVisit(i, d, t) ==
    LET r == WetSoilArm(elements, branches, index_to_xy(i)[1], index_to_xy(i)[2], i, d, t,
                        fall_into_void)
    IN  /\ elements' = r.grid
        /\ branches' = r.branches
        /\ last' = [op |-> "wet_soil", started |-> Len(r.branches) - Len(branches)]

\* execute_element_action is called on a wet soil cell
BranchWetSoil ==
    /\ \E i \in DOMAIN elements : \E d \in WetSoilDraws : \E t \in StartDraws :
         /\ elements[i] = "WetSoil"
         /\ WetSoilVisit(i, d, t)
    /\ UNCHANGED << scanVars, hist >>
    /\ FrameRest

\* the call with what it did: the grid before, the number of branches before,
\* branches_to_remove and each turn's outcome
Processed(r) ==
    /\ elements' = r.grid
    /\ branches' = r.branches
    /\ last' = [op |-> "branches", before |-> elements, n |-> Len(branches),
                to_remove |-> r.to_remove, turns |-> r.turns]

\* run_simulation_frame calls process_tree_branches
BranchProcess ==
    /\ branches # << >>
    /\ \E ds \in BranchDraws(Len(branches), TurnDraws) :
         Processed(process_tree_branches(elements, branches, ds))
    /\ UNCHANGED << scanVars, hist >>
    /\ FrameRest

BranchNext == BranchWetSoil \/ BranchProcess

SpecBranch == BranchInit /\ [][BranchNext]_vars

RECURSIVE SumChildren(_, _)
SumChildren(turns, n) == IF n = 0 THEN 0 ELSE turns[n].children + SumChildren(turns, n - 1)

\* the turns of the last call whose step landed, inside the grid, on a wall cell
WallTurns ==
    { k \in DOMAIN last.turns :
        last.turns[k].met # "edge" /\ last.before[last.turns[k].cell] = "Wall" }

\* C10: after a call of process_tree_branches, every branch whose step landed on
\* a Wall cell is in branches_to_remove, has stamped nothing and has pushed no
\* child, and the wall cell is still Wall; the list is the old one less the
\* removed branches plus the children; and when that branch was the only one,
\* the list is empty and the grid is as it was before the call.
C10_BranchStopsAtWall ==
    last.op = "branches" =>
        /\ \A k \in WallTurns :
             /\ \E j \in DOMAIN last.to_remove : last.to_remove[j] = k
             /\ ~last.turns[k].stamped
             /\ last.turns[k].children = 0
             /\ elements[last.turns[k].cell] = "Wall"
        /\ Len(branches) = last.n - Len(last.to_remove) + SumChildren(last.turns, last.n)
        /\ (last.n = 1 /\ WallTurns # {}) => (branches = << >> /\ elements = last.before)

\* a call in which a branch that had grown for some steps has landed on a wall
C10_Witness ==
    /\ last.op = "branches"
    /\ WallTurns # {}
    /\ Count(elements, "Branch") >= BranchWallGap - 1

\* a call in which one of two branches has landed on a wall and the other grown
C10_WitnessTwo ==
    /\ last.op = "branches"
    /\ last.n >= 2
    /\ WallTurns # {}
    /\ WallTurns # DOMAIN last.turns

-----------------------------------------------------------------------------
\* SpecZigzag: frames on small grids that hold one sand cell and rows or
\* columns of wall, with the sand cells at the start of the frame kept in hist

ZigzagWidth == 4

ZigzagHeight == 3

\* the w x h grid whose rows `rows` are wall, with one sand cell at (x, y)
FlooredSand(w, h, rows, x, y) ==
    [i \in 0 .. (w * h - 1) |->
        IF i = y * w + x THEN "Sand"
        ELSE IF (i \div w) \in rows THEN "Wall"
        ELSE "Background"]

ZigzagGrids ==
    { FlooredSand(ZigzagWidth, ZigzagHeight, rows, x, y) :
        rows \in SUBSET (0 .. ZigzagHeight - 1), x \in 0 .. ZigzagWidth - 1,
        y \in 0 .. ZigzagHeight - 1 }
    \cup
    { WalledSand(ZigzagWidth, ZigzagHeight, cols, x, y) :
        cols \in SUBSET (0 .. ZigzagWidth - 1), x \in 0 .. ZigzagWidth - 1,
        y \in 0 .. ZigzagHeight - 1 }

ZigzagInit == FrameInitWith(ZigzagWidth, ZigzagHeight, ZigzagGrids, FALSE)

ZigzagFrameStart == FrameStart(FALSE, SpigotsOff, 1)

ZigzagScanVisit == ScanVisit(MoveDraws, 1)

ZigzagNext == ZigzagFrameStart \/ ZigzagScanVisit \/ ScanEnd

SpecZigzag == ZigzagInit /\ [][ZigzagNext]_vars

RowOf(i) == index_to_xy(i)[2]

ColOf(i) == index_to_xy(i)[1]

\* a row of the parity of the bottom row is gone through from right to left
RightToLeft(y) == y % 2 = max_y % 2

\* the cell of visit b comes after the cell of visit a in the order of a frame
FiredAfter(a, b) ==
    \/ b.y < a.y
    \/ b.y = a.y /\ (IF RightToLeft(a.y) THEN b.x < a.x ELSE b.x > a.x)

\* the sand cell is where the last visit was, one row further down
MovedDown ==
    /\ last.op = "visit"
    /\ last.element = "Sand"
    /\ \E i \in SandCells : RowOf(i) = last.y + 1

\* the sand cell is in the row of the last visit, one column further in the
\* direction in which that row is gone through
MovedAlong ==
    /\ last.op = "visit"
    /\ last.element = "Sand"
    /\ \E i \in SandCells :
         /\ RowOf(i) = last.y
         /\ ColOf(i) = (IF RightToLeft(last.y) THEN last.x - 1 ELSE last.x + 1)

\* the sand cell is among the cells the frame under way has yet to fire
FiredAgain ==
    /\ pc = "scan"
    /\ \E i \in SandCells : ScanRank(ColOf(i), RowOf(i)) \in ScanPending

\* C11: of two visits in a row within a frame the second is of a row higher up,
\* or of the same row further along in the row's direction (right to left in
\* the rows of the bottom row's parity, left to right in the others); a sand
\* cell that a visit moved into the row below is not fired again in the frame;
\* and during and after a frame the sand cell is at most one row below where it
\* was when the frame began.
C11_OneRowPerTick ==
    /\ [][(last.op = "visit" /\ last'.op = "visit") => FiredAfter(last, last')]_vars
    /\ [](MovedDown => ~FiredAgain)
    /\ [](hist.ticks >= 1 =>
            \A i \in SandCells : \E o \in hist.origin : RowOf(i) <= RowOf(o) + 1)

\* a frame has moved the sand cell down by one row and is still going on
C11_Witness ==
    /\ pc = "scan"
    /\ MovedDown
    /\ \E i \in SandCells : \E o \in hist.origin : RowOf(i) = RowOf(o) + 1

\* C12: a sand cell that a visit moved one column along its row in the
\* direction in which the row is gone through is fired again in the same frame.
C12_MovedAlongFiredAgain == MovedAlong => FiredAgain

\* within one frame the sand cell has moved two or more columns along its row
C12_Witness ==
    /\ MovedAlong
    /\ \E i \in SandCells : \E o \in hist.origin :
         /\ RowOf(i) = RowOf(o)
         /\ (ColOf(i) - ColOf(o) >= 2 \/ ColOf(o) - ColOf(i) >= 2)

-----------------------------------------------------------------------------
(* The app around the simulation: the resources of systems/mod.rs and the     *)
(* systems of the Update chain of main.rs, one frame after the other.  host   *)
(* holds the resources the grid, the pool and the branch list do not, the     *)
(* save file, the system that runs next (stage) and counters of what has run. *)

(* f32 values from 0 up to 4 that are multiples of 2^-26, counted in that     *)
(* unit.  A sum is rounded to the nearest value with a 24 bit significand,    *)
(* ties to the even one, as the f32 addition does.                            *)
F32Unit == 2^26

\* the distance between neighbouring f32 values at n
F32Quantum(n) ==
    IF n < 2^24 THEN 1
    ELSE IF n < 2^25 THEN 2
    ELSE IF n < 2^26 THEN 4
    ELSE IF n < 2^27 THEN 8
    ELSE 16

RoundF32(n) ==
    LET q == F32Quantum(n)
        lo == (n \div q) * q
        r == n - lo
    IN  IF 2 * r < q THEN lo
        ELSE IF 2 * r > q THEN lo + q
        ELSE IF (lo \div q) % 2 = 0 THEN lo ELSE lo + q

\* the f32 nearest to 1.9: significand 15938355, exponent 0
F32NearTwo == 15938355 * 2^3

\* the discriminants of the enum, in its order
ElementOrder ==
    << "Background", "Wall", "Sand", "Water", "Fire", "Salt", "Oil", "Rock",
       "Ice", "Lava", "Steam", "SaltWater", "Plant", "Gunpowder", "Wax",
       "Concrete", "Nitro", "Napalm", "C4", "Fuse", "Acid", "Cryo", "Methane",
       "Soil", "WetSoil", "Thermite", "Spout", "Well", "Torch", "Branch", "Leaf",
       "Pollen", "FallingWax", "ChilledIce", "Mystery", "ChargedNitro",
       "BurningThermite", "RainbowSand" >>

Discriminant(t) == (CHOOSE k \in 1 .. Len(ElementOrder) : ElementOrder[k] = t) - 1

\* a serialize that writes the height before the width
serialize_HeightFirst(els, w, h) ==
    << len(els) >> \o [k \in 1 .. len(els) |-> Discriminant(els[k - 1])] \o << h, w >>

\* what the derived Serialize writes for the grid: the length of elements, the
\* variant index of each element, the width and the height (a word each)
serialize(els, w, h) ==
    << len(els) >> \o [k \in 1 .. len(els) |-> Discriminant(els[k - 1])] \o << w, h >>

\* what the derived Deserialize reads back; None when the data end early or
\* hold a word that is no variant index.  Words after the height are ignored.
deserialize(data) ==
    IF Len(data) = 0 \/ Len(data) < data[1] + 3 THEN None
    ELSE IF \E k \in 1 .. data[1] : data[1 + k] >= Len(ElementOrder) THEN None
    ELSE Some([elements |-> [i \in 0 .. data[1] - 1 |-> ElementOrder[data[2 + i] + 1]],
               width |-> data[data[1] + 2],
               height |-> data[data[1] + 3]])

\* the resources at startup (speed 1.0, no flag set, accumulator 0) with the
\* save file `file` (None: there is none) and the counters at zero
HostStart(file) ==
    [stage |-> "ui", speed |-> F32Unit, acc |-> 0,
     clear_grid |-> FALSE, save_grid |-> FALSE, load_grid |-> FALSE,
     file |-> file, times |-> {}, line |-> None,
     frames |-> 0, sum |-> 0, inexact |-> FALSE,
     ticks |-> 0, branch_passes |-> 0, grid_passes |-> 0, particle_passes |-> 0]

HostRest == UNCHANGED << fall_into_void, hist >>

\* ui_system: the speed slider and the Save, Load and Clear buttons; a button
\* sets its flag and never resets it.  A new frame begins; frames up to cap.
HostUi(speeds, saves, loads, clears, cap) ==
    /\ host.stage = "ui"
    /\ host.frames < cap
    /\ \E speed \in speeds, save \in saves, load \in loads, clr \in clears :
         /\ host' = [host EXCEPT !.stage = "resize",
                                 !.speed = speed,
                                 !.save_grid = @ \/ save,
                                 !.load_grid = @ \/ load,
                                 !.clear_grid = @ \/ clr,
                                 !.frames = @ + 1,
                                 !.sum = IF speed > 0 THEN @ + speed ELSE @]
         /\ last' = [op |-> "ui"]
    /\ UNCHANGED << gridVars, poolVars, branches, scanVars >>
    /\ HostRest

RECURSIVE Resized(_, _, _)
\* the loop of handle_window_resize over the events, each the new grid size:
\* a size other than the grid's replaces the grid and clears the times
Resized(g, times, events) ==
    IF events = << >> THEN [grid |-> g, times |-> times]
    ELSE LET e == Head(events) IN
         IF e.width # g.width \/ e.height # g.height
         THEN Resized([elements |-> new(e.width, e.height), width |-> e.width,
                       height |-> e.height], {}, Tail(events))
         ELSE Resized(g, times, Tail(events))

SetGrid(g) ==
    /\ elements' = g.elements
    /\ width' = g.width
    /\ height' = g.height

Grid == [elements |-> elements, width |-> width, height |-> height]

handle_window_resize(queues) ==
    /\ host.stage = "resize"
    /\ \E events \in queues :
         LET r == Resized(Grid, host.times, events) IN
         /\ SetGrid(r.grid)
         /\ host' = [host EXCEPT !.stage = "save_load", !.times = r.times]
         /\ last' = [op |-> "resize", events |-> events]
    /\ UNCHANGED << poolVars, branches, scanVars >>
    /\ HostRest

\* a load that leaves an empty grid behind when the data cannot be read
Loaded_ClearsOnFailure(g, load_grid, file) ==
    IF ~load_grid THEN g
    ELSE IF IsSome(file) /\ IsSome(deserialize(Unwrap(file)))
    THEN Unwrap(deserialize(Unwrap(file)))
    ELSE [g EXCEPT !.elements = clear(g.elements)]

\* the grid after the load branch: the inserted grid when the file is there
\* and deserializes, the grid as it was otherwise
Loaded(g, load_grid, file) ==
    IF load_grid /\ IsSome(file) /\ IsSome(deserialize(Unwrap(file)))
    THEN Unwrap(deserialize(Unwrap(file)))
    ELSE g

\* the save branch writes the grid (write_ok: fs::write succeeded), the load
\* branch reads the file as the save branch left it; both flags are cleared.
\* The inserted grid is in place before the next system of the chain runs.
handle_save_load(writes) ==
    /\ host.stage = "save_load"
    /\ \E write_ok \in writes :
         LET file == IF host.save_grid /\ write_ok
                     THEN Some(serialize(elements, width, height)) ELSE host.file
             g == Loaded(Grid, host.load_grid, file)
         IN  /\ SetGrid(g)
             /\ host' = [host EXCEPT !.stage = "simulate", !.save_grid = FALSE,
                                     !.load_grid = FALSE, !.file = file]
             /\ last' = [op |-> "save_load", save |-> host.save_grid,
                         load |-> host.load_grid,
                         loaded |-> host.load_grid /\ IsSome(file)
                                      /\ IsSome(deserialize(Unwrap(file)))]
    /\ UNCHANGED << poolVars, branches, scanVars >>
    /\ HostRest

\* an update_game_simulation that starts the accumulator afresh at the speed
update_game_simulation_Restarts ==
    /\ host.stage = "simulate"
    /\ host' = IF host.speed <= 0 THEN [host EXCEPT !.stage = "particles"]
               ELSE [host EXCEPT !.stage = "loop", !.acc = host.speed]
    /\ last' = [op |-> "simulate"]
    /\ UNCHANGED << gridVars, poolVars, branches, scanVars >>
    /\ HostRest

\* update_game_simulation up to its loop: nothing at a speed of zero or less,
\* else the speed is added to the accumulator
update_game_simulation ==
    /\ host.stage = "simulate"
    /\ host' = IF host.speed <= 0 THEN [host EXCEPT !.stage = "particles"]
               ELSE [host EXCEPT !.stage = "loop",
                                 !.acc = RoundF32(@ + host.speed),
                                 !.inexact = @ \/ RoundF32(host.acc + host.speed)
                                                    # host.acc + host.speed]
    /\ last' = [op |-> "simulate"]
    /\ UNCHANGED << gridVars, poolVars, branches, scanVars >>
    /\ HostRest

\* one turn of the loop: the accumulator is at least 1.0, 1.0 is taken off it
\* and run_simulation_frame begins.  The difference is an f32 value, so the
\* subtraction does not round.
run_simulation_frame(sizes) ==
    /\ host.stage = "loop"
    /\ pc = "idle"
    /\ host.acc >= F32Unit
    /\ \E ds \in BranchDraws(IF host.clear_grid THEN 0 ELSE Len(branches), TurnDraws) :
         FramePrologue(IF host.clear_grid THEN clear(elements) ELSE elements,
                       IF host.clear_grid THEN << >> ELSE branches, sizes, ds)
    /\ pc' = "scan"
    /\ scan_x' = ScanCell(0)[1]
    /\ scan_y' = ScanCell(0)[2]
    /\ host' = [host EXCEPT !.acc = @ - F32Unit,
                            !.clear_grid = FALSE,
                            !.times = IF host.clear_grid THEN {} ELSE @,
                            !.ticks = @ + 1,
                            !.branch_passes = @ + 1]
    /\ last' = [op |-> "frame"]
    /\ UNCHANGED << width, height, poolVars >>
    /\ HostRest

\* the scan loops of the frame under way; the grid pass is over with the last
\* cell
HostScanVisit(g) ==
    /\ host.stage = "loop"
    /\ pc = "scan"
    /\ ScanPending # {}
    /\ \E c \in {ScanCell(ScanNext)} : \E d \in g : Visit(c[1], c[2], d, 0)
    /\ host' = [host EXCEPT !.grid_passes = IF pc' = "idle" THEN @ + 1 ELSE @]
    /\ UNCHANGED << width, height, fall_into_void, poolVars, branches >>

HostScanEnd ==
    /\ host.stage = "loop"
    /\ pc = "scan"
    /\ ScanPending = {}
    /\ pc' = "idle"
    /\ scan_x' = 0
    /\ scan_y' = 0
    /\ host' = [host EXCEPT !.grid_passes = @ + 1]
    /\ last' = [op |-> "frame_end"]
    /\ UNCHANGED << gridVars, poolVars, branches >>
    /\ HostRest

\* the accumulator is below 1.0: the loop and update_game_simulation are over
SimulationDone ==
    /\ host.stage = "loop"
    /\ pc = "idle"
    /\ host.acc < F32Unit
    /\ host' = [host EXCEPT !.stage = "particles"]
    /\ last' = [op |-> "simulated"]
    /\ UNCHANGED << gridVars, poolVars, branches, scanVars >>
    /\ HostRest

\* the system update_particles: one pass over the active particles
HostParticles(g) ==
    /\ host.stage = "particles"
    /\ \E ds \in PassDraws(Pool, g) :
         /\ SetPool(update_particles(Pool, ds, elements))
         /\ last' = [op |-> "pass", active |-> Len(active_indices)]
    /\ host' = [host EXCEPT !.stage = "mouse", !.particle_passes = @ + 1]
    /\ UNCHANGED << gridVars, branches, scanVars >>
    /\ HostRest

(* The brush.  The radius is counted in halves (r2 = 3 is 1.5), so that        *)
(* `radius as i32` is r2 \div 2 and dist_sq <= radius * radius is              *)
(* 4 * dist_sq <= r2 * r2.  Of rainbow_sand_times the keys are kept.           *)
BrushSide(r2) == 2 * (r2 \div 2) + 1

\* the k-th offset of the two loops: dy outside, dx inside, both upwards
BrushOffset(r2, k) ==
    << (k % BrushSide(r2)) - (r2 \div 2), (k \div BrushSide(r2)) - (r2 \div 2) >>

InRadius(dx, dy, r2) == 4 * (dx * dx + dy * dy) <= r2 * r2

\* (v).max(0).min(size - 1)
Clamped(v, size) == Min(Max(v, 0), size - 1)

\* a brush that writes whatever the cell holds
Painted_Always(c, px, py, element, overwrite) ==
    [grid |-> set(c.grid, px, py, element),
     times |-> IF element = "RainbowSand" THEN c.times \cup {xy_to_index(px, py)}
               ELSE c.times \ {xy_to_index(px, py)}]

\* the body of the loops at the cell (px, py); c holds the grid and the times
Painted(c, px, py, element, overwrite) ==
    IF overwrite \/ get(c.grid, px, py) = "Background"
    THEN [grid |-> set(c.grid, px, py, element),
          times |-> IF element = "RainbowSand" THEN c.times \cup {xy_to_index(px, py)}
                    ELSE c.times \ {xy_to_index(px, py)}]
    ELSE c

RECURSIVE Circle(_, _, _, _, _, _, _)
\* the two loops around (cx, cy) from the k-th offset on.  (The comparison
\* with c has TLC work out the turn of the loop before it goes on.)
Circle(c, cx, cy, r2, element, overwrite, k) ==
    IF k >= BrushSide(r2) * BrushSide(r2) THEN c
    ELSE LET o == BrushOffset(r2, k)
             turn == IF InRadius(o[1], o[2], r2)
                     THEN Painted(c, Clamped(cx + o[1], width), Clamped(cy + o[2], height),
                                  element, overwrite)
                     ELSE c
         IN  IF turn = c THEN Circle(c, cx, cy, r2, element, overwrite, k + 1)
             ELSE Circle(turn, cx, cy, r2, element, overwrite, k + 1)

RECURSIVE Erased(_, _, _, _, _)
\* the loops of the right button: every cell in reach becomes Background
Erased(els, cx, cy, r2, k) ==
    IF k >= BrushSide(r2) * BrushSide(r2) THEN els
    ELSE LET o == BrushOffset(r2, k)
             turn == IF InRadius(o[1], o[2], r2)
                     THEN set(els, Clamped(cx + o[1], width), Clamped(cy + o[2], height),
                              "Background")
                     ELSE els
         IN  IF turn = els THEN Erased(els, cx, cy, r2, k + 1)
             ELSE Erased(turn, cx, cy, r2, k + 1)

\* the step of draw_line from (x, y) with error term err towards (x1, y1)
LineStep(x, y, err, x0, y0, x1, y1) ==
    LET dx == Abs(x1 - x0)
        dy == Abs(y1 - y0)
        sx == IF x0 < x1 THEN 1 ELSE -1
        sy == IF y0 < y1 THEN 1 ELSE -1
        e2 == 2 * err
        err1 == IF e2 > -dy THEN err - dy ELSE err
    IN  [x |-> IF e2 > -dy THEN x + sx ELSE x,
         y |-> IF e2 < dx THEN y + sy ELSE y,
         err |-> IF e2 < dx THEN err1 + dx ELSE err1]

RECURSIVE LineLoop(_, _, _, _, _, _, _, _, _, _, _)
LineLoop(c, x, y, err, x0, y0, x1, y1, r2, element, overwrite) ==
    LET drawn == Circle(c, x, y, r2, element, overwrite, 0)
        n == LineStep(x, y, err, x0, y0, x1, y1)
    IN  IF x = x1 /\ y = y1 THEN drawn
        ELSE IF drawn = c
        THEN LineLoop(c, n.x, n.y, n.err, x0, y0, x1, y1, r2, element, overwrite)
        ELSE LineLoop(drawn, n.x, n.y, n.err, x0, y0, x1, y1, r2, element, overwrite)

draw_line(c, x0, y0, x1, y1, r2, element, overwrite) ==
    LineLoop(c, x0, y0, Abs(x1 - x0) - Abs(y1 - y0), x0, y0, x1, y1, r2, element,
             overwrite)

\* what handle_mouse_clicks_cpu leaves of the grid, the times and the line
\* state under the command m: the button held ("away": no cursor over the
\* grid, the handler returns at once), shift, the cell under the cursor, and
\* the selected element, the radius and the overwrite mode of the controls
Clicked(c, line, m) ==
    CASE m.button = "away" -> [grid |-> c.grid, times |-> c.times, line |-> line]
      [] m.button = "left" /\ m.shift ->
           LET start == IF line = None THEN << m.x, m.y >> ELSE Unwrap(line)
               drawn == draw_line(c, start[1], start[2], m.x, m.y, m.r2, m.element,
                                  m.overwrite)
           IN  [grid |-> drawn.grid, times |-> drawn.times, line |-> Some(start)]
      [] m.button = "left" /\ ~m.shift ->
           LET drawn == Circle(c, m.x, m.y, m.r2, m.element, m.overwrite, 0)
           IN  [grid |-> drawn.grid, times |-> drawn.times, line |-> None]
      [] m.button = "right" ->
           [grid |-> Erased(c.grid, m.x, m.y, m.r2, 0), times |-> c.times, line |-> line]
      [] m.button = "none" -> [grid |-> c.grid, times |-> c.times, line |-> None]

\* the commands over the cells of the grid; with no button held the handler
\* reads nothing else, and one command stands for all
MouseCommands(buttons, elems, radii, modes) ==
    [button : buttons \ {"none", "away"}, shift : BOOLEAN, x : 0 .. width - 1,
     y : 0 .. height - 1, element : elems, r2 : radii, overwrite : modes]
    \cup
    [button : buttons \cap {"none", "away"}, shift : {FALSE}, x : {0}, y : {0},
     element : {CHOOSE e \in elems : TRUE}, r2 : {CHOOSE r \in radii : TRUE},
     overwrite : {FALSE}]

handle_mouse_clicks_cpu(buttons, elems, radii, modes) ==
    /\ host.stage = "mouse"
    /\ \E m \in MouseCommands(buttons, elems, radii, modes) :
         LET r == Clicked([grid |-> elements, times |-> host.times], host.line, m) IN
         /\ elements' = r.grid
         /\ host' = [host EXCEPT !.stage = "ui", !.times = r.times, !.line = r.line]
         /\ last' = [op |-> "mouse", m |-> m]
    /\ UNCHANGED << width, height, poolVars, branches, scanVars >>
    /\ HostRest

\* the app at startup or later: the grid, the pool and the branches given
HostInitWith(w, h, grids, pools, growing, files) ==
    /\ width = w
    /\ height = h
    /\ elements \in grids
    /\ fall_into_void = FALSE
    /\ \E pl \in pools : /\ particles = pl.particles
                         /\ active_indices = pl.active_indices
                         /\ inactive_indices = pl.inactive_indices
                         /\ particle_counts = pl.particle_counts
    /\ branches \in growing
    /\ NoScan
    /\ last = NoLast
    /\ hist = FrameHist(elements)
    /\ \E file \in files : host = HostStart(file)

-----------------------------------------------------------------------------
\* SpecSpeed: frames at the speeds 0, 1/2, 1, 2 and the f32 nearest to 1.9 on
\* a grid that holds one wall cell; no button is pressed and no window resized

SpeedFrames == 10

SpeedDim == 2

SpeedDraws == {0, F32Unit \div 2, F32Unit, 2 * F32Unit, F32NearTwo}

SpeedInit ==
    HostInitWith(SpeedDim, SpeedDim,
                 {[new(SpeedDim, SpeedDim) EXCEPT ![SpeedDim * SpeedDim - 1] = "Wall"]},
                 {DefaultPool(1)}, {<< >>}, {None})

SpeedUi == HostUi(SpeedDraws, {FALSE}, {FALSE}, {FALSE}, SpeedFrames)

SpeedResize == handle_window_resize({<< >>})

SpeedSaveLoad == handle_save_load({TRUE})

SpeedFrame == run_simulation_frame(SpigotsOff)

SpeedScanVisit == HostScanVisit(MoveDraws)

SpeedParticles == HostParticles(DataDraws)

SpeedMouse == handle_mouse_clicks_cpu({"none"}, {"Sand"}, {2}, {FALSE})

SpeedNext ==
    \/ SpeedUi
    \/ SpeedResize
    \/ SpeedSaveLoad
    \/ update_game_simulation
    \/ SpeedFrame
    \/ SpeedScanVisit
    \/ HostScanEnd
    \/ SimulationDone
    \/ SpeedParticles
    \/ SpeedMouse

SpecSpeed == SpeedInit /\ [][SpeedNext]_vars

\* a frame is over and the next has not begun
BetweenFrames == host.stage = "ui" /\ host.frames >= 1

AccumulatorInUnit == host.acc >= 0 /\ host.acc < F32Unit

\* the claim C14 as it stands: after every frame the accumulator is in [0, 1)
\* and the number of frames run is the integer part of the sum of the speeds
\* above zero supplied so far.
C14_TicksAreIntegerPart ==
    BetweenFrames => (AccumulatorInUnit /\ host.ticks = host.sum \div F32Unit)

\* C14: after every frame the accumulator is in [0, 1); and as long as no
\* addition to the accumulator has been rounded, the number of frames run is
\* the integer part of the sum of the speeds above zero supplied so far.
C14_TicksAreIntegerPartIfExact ==
    BetweenFrames =>
        /\ AccumulatorInUnit
        /\ ~host.inexact => host.ticks = host.sum \div F32Unit

\* three frames or more, half a unit left in the accumulator, two frames or
\* more run, nothing rounded
C14_Witness ==
    /\ BetweenFrames
    /\ host.frames >= 3
    /\ ~host.inexact
    /\ host.acc = F32Unit \div 2
    /\ host.ticks >= 2
    /\ host.ticks < 2 * host.frames

-----------------------------------------------------------------------------
\* SpecHost: frames at the speeds 0, 1/2, 1 and 2 of an app in which a sand
\* cell may be falling, a methane particle may be in flight and a tree branch
\* may be growing; no button is pressed and no window resized

HostFrames == 3

HostWidth == 3

HostHeight == 3

HostSpeeds == {0, F32Unit \div 2, F32Unit, 2 * F32Unit}

HostGrids == {new(HostWidth, HostHeight), OneSand(HostWidth, HostHeight, 1, 0)}

\* the pool with no particle and with the one that the methane arm has added
\* at the middle cell
HostPools(w, h) ==
    {DefaultPool(1),
     add_active_particle(DefaultPool(1), "Methane", (w \div 2) * FP, (h \div 2) * FP,
                         (h \div 2) * w + (w \div 2)).pool}

\* no branch, and the branch that the wet soil arm has started from the bottom
\* row
HostGrowing(w, h) ==
    {<< >>,
     start_tree_generation(<< >>, w \div 2, h - 1,
                           [u1 |-> 0, k1 |-> 0, k2 |-> 0, b1 |-> FALSE])}

HostParticleDraws == Draws({0}, {TRUE}, {0})

HostInit ==
    HostInitWith(HostWidth, HostHeight, HostGrids, HostPools(HostWidth, HostHeight),
                 HostGrowing(HostWidth, HostHeight), {None})

HostNext ==
    \/ HostUi(HostSpeeds, {FALSE}, {FALSE}, {FALSE}, HostFrames)
    \/ handle_window_resize({<< >>})
    \/ handle_save_load({TRUE})
    \/ update_game_simulation
    \/ run_simulation_frame(SpigotsOff)
    \/ HostScanVisit(MoveDraws)
    \/ HostScanEnd
    \/ SimulationDone
    \/ HostParticles(HostParticleDraws)
    \/ handle_mouse_clicks_cpu({"none"}, {"Sand"}, {2}, {FALSE})

SpecHost == HostInit /\ [][HostNext]_vars

\* C13: after every frame the numbers of branch passes, of grid passes and of
\* particle passes that have run are equal.
C13_PassesEqual ==
    BetweenFrames =>
        /\ host.branch_passes = host.grid_passes
        /\ host.grid_passes = host.particle_passes

\* C15: in a frame at speed 0 no step of update_game_simulation or of
\* update_particles changes the grid, the branch list or a particle.
C15_PausedFrameChangesNothing ==
    [][(host.speed = 0 /\ host.stage \in {"simulate", "loop", "particles"})
         => UNCHANGED << gridVars, branches, poolVars >>]_vars

-----------------------------------------------------------------------------
\* SpecReload: frames, paused or at speed 1, in which Save and Load may be
\* pressed and the window may be resized, while a sand cell may be falling, a
\* methane particle may be in flight and a tree branch may be growing.  The
\* save file is absent at first, or cut short, or holds a word that is no
\* variant, or was written from a grid with a wall along its top row.

ReloadFrames == 2

ReloadWidth == 3

ReloadHeight == 3

ReloadSpeeds == {0, F32Unit}

ReloadFiles ==
    {None, Some(<< ReloadWidth * ReloadHeight >>),
     Some(<< 1, Len(ElementOrder), 1, 1 >>),
     Some(serialize(WallRow(ReloadWidth, ReloadHeight, 0), ReloadWidth, ReloadHeight))}

\* no WindowResized event, one with the size of the startup grid, one with a
\* narrower size
ReloadQueues ==
    {<< >>, << [width |-> ReloadWidth, height |-> ReloadHeight] >>,
     << [width |-> ReloadWidth - 1, height |-> ReloadHeight] >>}

ReloadInit ==
    HostInitWith(ReloadWidth, ReloadHeight,
                 {new(ReloadWidth, ReloadHeight), OneSand(ReloadWidth, ReloadHeight, 1, 0)},
                 HostPools(ReloadWidth, ReloadHeight),
                 HostGrowing(ReloadWidth, ReloadHeight), ReloadFiles)

ReloadNext ==
    \/ HostUi(ReloadSpeeds, BOOLEAN, BOOLEAN, {FALSE}, ReloadFrames)
    \/ handle_window_resize(ReloadQueues)
    \/ handle_save_load(BOOLEAN)
    \/ update_game_simulation
    \/ run_simulation_frame(SpigotsOff)
    \/ HostScanVisit(MoveDraws)
    \/ HostScanEnd
    \/ SimulationDone
    \/ HostParticles(HostParticleDraws)
    \/ handle_mouse_clicks_cpu({"none"}, {"Sand"}, {2}, {FALSE})

SpecReload == ReloadInit /\ [][ReloadNext]_vars

\* C16: a step of handle_window_resize that changes the size of the grid
\* leaves an all-background grid of the new size, no active particle, an empty
\* branch list and an empty map of placement times.
C16_ResizeDiscardsState ==
    [][(host.stage = "resize" /\ << width', height' >> # << width, height >>)
         => /\ elements' = new(width', height')
            /\ active_indices' = << >>
            /\ branches' = << >>
            /\ host'.times = {}]_vars

\* the step is handle_save_load with the load flag set, and the file it reads
\* is not there or does not deserialize
FailedLoad ==
    /\ host.stage = "save_load"
    /\ host.load_grid
    /\ (host'.file = None \/ deserialize(Unwrap(host'.file)) = None)

\* C17: a load that fails leaves the elements, the width and the height of the
\* grid as they were, and the load flag cleared.
C17_FailedLoadKeepsGrid ==
    [][FailedLoad => (UNCHANGED gridVars /\ ~host'.load_grid)]_vars

\* a load has just failed on data that do not deserialize, with sand on the grid
C17_Witness ==
    /\ last.op = "save_load"
    /\ last.load
    /\ ~last.loaded
    /\ IsSome(host.file)
    /\ \E i \in DOMAIN elements : elements[i] = "Sand"

\* C18: a step of handle_save_load that loads a grid leaves no branch in the
\* branch list and no particle active.
C18_LoadDropsInFlight ==
    [][(host.stage = "save_load" /\ last'.loaded)
         => (branches' = << >> /\ active_indices' = << >>)]_vars

-----------------------------------------------------------------------------
\* SpecDraw: frames of the paused app in which the left button is up or draws
\* sand, with or without shift, at any cell, with a radius of 1.0 or 1.5, in
\* either mode, on a grid that is empty at first or has a wall along a row

DrawFrames == 2

DrawWidth == 3

DrawHeight == 2

DrawButtons == {"left", "none"}

DrawElements == {"Sand"}

DrawRadii == {2, 3}

DrawInit ==
    HostInitWith(DrawWidth, DrawHeight,
                 {new(DrawWidth, DrawHeight), WallRow(DrawWidth, DrawHeight, 1)},
                 {DefaultPool(1)}, {<< >>}, {None})

DrawNext ==
    \/ HostUi({0}, {FALSE}, {FALSE}, {FALSE}, DrawFrames)
    \/ handle_window_resize({<< >>})
    \/ handle_save_load({TRUE})
    \/ update_game_simulation
    \/ HostParticles(HostParticleDraws)
    \/ handle_mouse_clicks_cpu(DrawButtons, DrawElements, DrawRadii, BOOLEAN)

SpecDraw == DrawInit /\ [][DrawNext]_vars

\* the cell i is no further from the cell (cx, cy) than the radius
UnderBrush(i, cx, cy, r2) == InRadius(ColOf(i) - cx, RowOf(i) - cy, r2)

\* the step is handle_mouse_clicks_cpu with the left button held
DrawCommand == host.stage = "mouse" /\ last'.op = "mouse" /\ last'.m.button = "left"

\* where the line of the step starts: the cell kept from the first click, or
\* the cell under the cursor when none is kept
LineStart == IF host.line = None THEN << last'.m.x, last'.m.y >> ELSE Unwrap(host.line)

-----------------------------------------------------------------------------
\* SpecClear: grids of every size up to GridMaxDim, written to and cleared

\* GameGrid::clear is called; last.again: the call before was a clear too,
\* last.dirty: the grid held a cell other than Background before the clears
GridClear ==
    /\ elements' = clear(elements)
    /\ last' = [op |-> "clear", again |-> last.op = "clear",
                dirty |-> IF last.op = "clear" THEN last.dirty
                          ELSE \E i \in DOMAIN elements : elements[i] # "Background"]
    /\ GridRest

ClearNext == GridSet \/ GridSetIndex \/ GridClear

SpecClear == GridInit /\ [][ClearNext]_vars

\* C20: a clear leaves every cell Background and the width, the height and
\* the number of cells as they were; a clear that follows a clear leaves the
\* grid as the first one left it.
C20_ClearIdempotent ==
    [][last'.op = "clear" =>
         /\ \A i \in DOMAIN elements' : elements'[i] = "Background"
         /\ DOMAIN elements' = DOMAIN elements
         /\ width' = width
         /\ height' = height
         /\ last.op = "clear" => elements' = elements]_vars

\* two clears in a row have run on a grid that held sand
C20_Witness ==
    /\ last.op = "clear"
    /\ last.again
    /\ last.dirty
    /\ len(elements) > 1

-----------------------------------------------------------------------------
\* SpecStore: the grid saved, loaded and resized.  The startup grid holds any
\* one tag of the enum at any one cell, on nothing or beside a row of wall;
\* the save file is missing or holds a grid of the transposed shape saved
\* before; a WindowResized event gives a size with no column, with no row, the
\* transposed size or a size one column wider.  The speed is 0 and no mouse
\* button is pressed.
StoreFrames == 2

StoreWidth == 3

StoreHeight == 2

StoreGrids ==
    { [g EXCEPT ![i] = t] :
        g \in {new(StoreWidth, StoreHeight), WallRow(StoreWidth, StoreHeight, 0)},
        i \in 0 .. (StoreWidth * StoreHeight - 1), t \in Elements }

StoreFiles ==
    {None, Some(serialize(WallRow(StoreHeight, StoreWidth, 0), StoreHeight, StoreWidth))}

StoreQueues ==
    {<< >>, << [width |-> 0, height |-> StoreHeight] >>,
     << [width |-> StoreWidth, height |-> 0] >>,
     << [width |-> StoreHeight, height |-> StoreWidth] >>,
     << [width |-> StoreWidth + 1, height |-> StoreHeight] >>}

StoreInit ==
    HostInitWith(StoreWidth, StoreHeight, StoreGrids, {DefaultPool(1)}, {<< >>},
                 StoreFiles)

StoreNext ==
    \/ HostUi({0}, BOOLEAN, BOOLEAN, {FALSE}, StoreFrames)
    \/ handle_window_resize(StoreQueues)
    \/ handle_save_load(BOOLEAN)
    \/ update_game_simulation
    \/ HostParticles(HostParticleDraws)
    \/ handle_mouse_clicks_cpu({"none"}, {"Sand"}, {2}, {FALSE})

SpecStore == StoreInit /\ [][StoreNext]_vars

\* C21: what serialize writes for the grid deserializes to a grid of the same
\* width, the same height and the same tag in every cell.
C21_RoundTrip == deserialize(serialize(elements, width, height)) = Some(Grid)

\* the grid has just been saved and loaded back from the file written; it is
\* not square and holds the first and the last tags of the enum and one more
C21_Witness ==
    /\ last.op = "save_load"
    /\ last.save
    /\ last.loaded
    /\ host.file = Some(serialize(elements, width, height))
    /\ width # height
    /\ \E i, j, k \in DOMAIN elements :
         elements[i] = "Background" /\ elements[j] = "Wall" /\ elements[k] = "RainbowSand"

-----------------------------------------------------------------------------
\* SpecArm: one call of execute_element_action on a rock, cryo, ice, nitro or
\* thermite cell.  The cell is anywhere on a small square grid; each of the
\* four cells that share an edge with it holds its own tag, nothing or its
\* partner (the tag its rules react to), the cells at its corners all hold its
\* own tag or all its partner; fall_into_void is on or off.
ArmDim == 3

ArmElements == {"Rock", "Cryo", "Ice", "Nitro", "Thermite"}

Partner(t) ==
    CASE t = "Rock" -> "Oil"
      [] t = "Cryo" -> "Sand"
      [] t = "Ice" -> "Water"
      [] t = "Nitro" -> "Fire"
      [] t = "Thermite" -> "Fire"

\* t at (x, y) with the tags of f at its sides and corner at its corners
ArmAt(w, h, x, y, t, f, corner) ==
    LET a == Around(w, h, x, y) IN
    [i \in 0 .. (w * h - 1) |->
        IF i = y * w + x THEN t
        ELSE IF i \in a.up THEN f.up
        ELSE IF i \in a.down THEN f.down
        ELSE IF i \in a.left THEN f.left
        ELSE IF i \in a.right THEN f.right
        ELSE IF (i % w) \in (x - 1) .. (x + 1) /\ (i \div w) \in (y - 1) .. (y + 1)
             THEN corner
        ELSE "Background"]

ArmGridsOf(t) ==
    LET near == {t, "Background", Partner(t)} IN
    { ArmAt(ArmDim, ArmDim, x, y, t, f, corner) :
        x \in 0 .. (ArmDim - 1), y \in 0 .. (ArmDim - 1),
        f \in [up : near, down : near, left : near, right : near],
        corner \in {t, Partner(t)} }

ArmGrids == UNION { ArmGridsOf(t) : t \in ArmElements }

\* the draws of an arm that can matter on these grids (the others look for a
\* tag that is not there): free both ways, or the second draw of a pair, taken
\* as a success
FreeDraws(t) ==
    CASE t = "Rock" -> {"c2", "c3", "c4", "c6"}
      [] t = "Cryo" -> {"c3", "c4", "coin"}
      [] t = "Ice" -> {"c1"}
      [] t = "Nitro" -> {"c1", "c2", "c3", "coin"}
      [] t = "Thermite" -> {"c1", "c5"}
      [] OTHER -> {}

PairDraws(t) == IF t \in {"Rock", "Cryo"} THEN {"c5"} ELSE {}

DrawValues(t, n) ==
    IF n \in FreeDraws(t) THEN BOOLEAN ELSE IF n \in PairDraws(t) THEN {TRUE} ELSE {FALSE}

HandlerDraws(t) ==
    [c1 : DrawValues(t, "c1"), c2 : DrawValues(t, "c2"), c3 : DrawValues(t, "c3"),
     c4 : DrawValues(t, "c4"), c5 : DrawValues(t, "c5"), c6 : DrawValues(t, "c6"),
     c7 : {FALSE}, c8 : {FALSE}, c9 : {FALSE}, c10 : {FALSE},
     coin : DrawValues(t, "coin")]

\* the handler returned at its surrounded_by or surrounded_by_adjacent test
EarlyReturn(els, x, y, i, d, fiv) ==
    CASE get_index(els, i) = "Ice" -> surrounded_by(els, x, y, i, "Ice")
      [] get_index(els, i) = "Nitro" ->
           /\ ~do_gravity(els, x, y, i, TRUE, d.c1, d.coin, fiv).moved
           /\ surrounded_by(els, x, y, i, "Nitro")
      [] get_index(els, i) = "Thermite" -> surrounded_by_adjacent(els, x, y, i, "Thermite")
      [] OTHER -> FALSE

\* what the handler does past that test
HandlerRest(els, x, y, i, d, fiv) ==
    CASE get_index(els, i) = "Ice" -> IceRest(els, x, y, i, d)
      [] get_index(els, i) = "Nitro" -> NitroRest(els, x, y, i, d)
      [] get_index(els, i) = "Thermite" -> ThermiteRest(els, x, y, i, d, fiv)

ArmInit == \E fiv \in BOOLEAN : FrameInitWith(ArmDim, ArmDim, ArmGrids, fiv)

\* the one call, on any cell of the five tags
ArmVisit ==
    /\ last = NoLast
    /\ \E i \in DOMAIN elements :
         /\ elements[i] \in ArmElements
         /\ \E d \in HandlerDraws(elements[i]) :
              /\ elements' = execute_element_action(elements, index_to_xy(i)[1],
                                                    index_to_xy(i)[2], i, d, fall_into_void)
              /\ last' = [op |-> "arm", i |-> i, before |-> elements,
                          early |-> EarlyReturn(elements, index_to_xy(i)[1],
                                                index_to_xy(i)[2], i, d, fall_into_void)]
    /\ UNCHANGED << branches, scanVars, hist >>
    /\ FrameRest

ArmNext == ArmVisit

SpecArm == ArmInit /\ [][ArmNext]_vars

Exchanged(els, i, j) == [els EXCEPT ![i] = els[j], ![j] = els[i]]

\* the cells that hold the tag of the handler's cell and did not before
ArrivedAt ==
    { j \in DOMAIN elements \ {last.i} :
        last.before[j] # last.before[last.i] /\ elements[j] = last.before[last.i] }

\* C23: when a call of a handler has moved the tag of its cell i to another
\* cell, the grid is as before but for the exchange of the two cells: the call
\* has written nothing else, and nothing into the cell it left.
C23_NoWriteAfterMove ==
    (last.op = "arm" /\ elements[last.i] # last.before[last.i] /\ ArrivedAt # {})
        => \E j \in ArrivedAt : elements = Exchanged(last.before, last.i, j)

\* C24: when the ice, nitro or thermite handler has returned at its
\* surrounded_by test, the rest of the handler leaves the grid as it was,
\* whatever it draws.
C24_EarlyReturnIsNoOp ==
    (last.op = "arm" /\ last.early)
        => \A d \in HandlerDraws(last.before[last.i]) :
             HandlerRest(last.before, index_to_xy(last.i)[1], index_to_xy(last.i)[2],
                         last.i, d, fall_into_void) = last.before

-----------------------------------------------------------------------------
\* SpecProbe: the probes below_adjacent, above_adjacent and adjacent called on
\* any cell of any grid of sand and nothing, for either tag.  A call leaves the
\* grid alone; last holds the call and what it returned.
ProbeWidth == 3

ProbeHeight == 2

ProbeTags == {"Background", "Sand"}

ProbeInit ==
    FrameInitWith(ProbeWidth, ProbeHeight,
                  [0 .. (ProbeWidth * ProbeHeight - 1) -> ProbeTags], FALSE)

\* the call's result; of the three only adjacent draws (in pick_rand_valid)
Probe(fn, els, i, target, coin) ==
    CASE fn = "below_adjacent" ->
           below_adjacent(els, index_to_xy(i)[1], index_to_xy(i)[2], i, target)
      [] fn = "above_adjacent" ->
           above_adjacent(els, index_to_xy(i)[1], index_to_xy(i)[2], i, target)
      [] fn = "adjacent" -> adjacent(els, index_to_xy(i)[1], i, target, coin)

ProbeCall(fn) ==
    /\ \E i \in DOMAIN elements, target \in ProbeTags, coin \in BOOLEAN :
         last' = [op |-> "probe", fn |-> fn, i |-> i, target |-> target,
                  result |-> Probe(fn, elements, i, target, coin)]
    /\ UNCHANGED << elements, branches, scanVars, hist >>
    /\ FrameRest

ProbeBelowAdjacent == ProbeCall("below_adjacent")

ProbeAboveAdjacent == ProbeCall("above_adjacent")

ProbeAdjacent == ProbeCall("adjacent")

ProbeNext == ProbeBelowAdjacent \/ ProbeAboveAdjacent \/ ProbeAdjacent

SpecProbe == ProbeInit /\ [][ProbeNext]_vars

\* the row the probe looks at, as an offset from i
ProbeRow(fn) ==
    CASE fn = "below_adjacent" -> width
      [] fn = "above_adjacent" -> -width
      [] fn = "adjacent" -> 0

\* the probe has two candidates, one on each side of the column of i, that
\* both hold the target, and the cell between them (for the two diagonal
\* probes) does not
Tied(fn, els, i, target) ==
    LET mid == i + ProbeRow(fn) IN
    /\ mid \in DOMAIN els
    /\ index_to_xy(i)[1] > 0
    /\ index_to_xy(i)[1] < max_x
    /\ els[mid - 1] = target
    /\ els[mid + 1] = target
    /\ fn # "adjacent" => els[mid] # target

\* C25: when the two side candidates of a probe both hold the target, each of
\* the two is returned for some outcome of the draws of the call.
C25_TieBreakUnbiased ==
    (last.op = "probe" /\ Tied(last.fn, elements, last.i, last.target))
        => \A side \in {-1, 1} :
             \E coin \in BOOLEAN :
               Probe(last.fn, elements, last.i, last.target, coin)
                 = Some(last.i + ProbeRow(last.fn) + side)

-----------------------------------------------------------------------------
\* SpecGrow: a tree grown by either host.  On a canvas that is empty or has a
\* wall along its second row, a Tree particle is activated in the last column
\* but one, in one of the lowest GrowRows rows, and the particle passes advance
\* it; on a canvas with wet soil on a floor of soil, under open sky or under a
\* wall GrowWallGap rows above, the wet soil arm starts a branch and
\* process_tree_branches advances it.  A tree has 1 or 3 branch events to
\* spend and is of either species.
GrowCapacity == 4

GrowWidth == 8

GrowHeight == 18

GrowMaxIterations == 17

GrowRows == 5

GrowWallGap == 5

GrowDraws == [Draws({0}, {TRUE}, {0}) EXCEPT !.b2 = BOOLEAN, !.k2 = EndDraws]

GrowGrids ==
    {new(GrowWidth, GrowHeight), WallRow(GrowWidth, GrowHeight, 1)}
    \cup { Orchard(GrowWidth, GrowHeight, GrowWidth \div 2, rows) :
               rows \in {{}, {GrowHeight - 2 - GrowWallGap}} }

GrowInit == PoolInitWith(GrowCapacity, GrowWidth, GrowHeight, GrowGrids)

\* a tree particle that a branch event has set up and no pass has advanced yet
\* (a particle activated otherwise has no generation before its first pass)
FreshChild(p) ==
    /\ p.active
    /\ p.particle_type = "Tree"
    /\ p.action_iterations = 0
    /\ IsSome(p.tree_generation)

\* a Tree particle is activated in the pool as constructed, where no branch can
\* sprout
GrowSpawn ==
    /\ last = NoLast
    /\ \A i \in DOMAIN elements : elements[i] # "WetSoil"
    /\ \E y \in (GrowHeight - GrowRows) .. (GrowHeight - 1) :
          Spawn({"Tree"}, GrowWidth - 2, y)

\* the passes are followed until the particles that the first branch event has
\* activated have been advanced once
GrowPass ==
    /\ \/ Len(active_indices) <= 1
       \/ \E i \in Slots : FreshChild(particles[i])
    /\ Pass(GrowDraws, GrowMaxIterations)

GrowSprout == BranchWetSoil

GrowProcess == BranchProcess

GrowNext == GrowSpawn \/ GrowPass \/ GrowSprout \/ GrowProcess

SpecGrow == GrowInit /\ [][GrowNext]_vars

\* a tree particle that has been advanced and so is initialised
Growing(p) ==
    /\ p.active
    /\ p.particle_type = "Tree"
    /\ p.action_iterations >= 1
    /\ IsSome(p.tree_generation)

\* the slots that this step has activated
Activated == { i \in Slots : ~particles[i].active /\ particles'[i].active }

\* the branches that this step has appended to the list
Appended == { k \in DOMAIN branches' : k > last'.n - Len(last'.to_remove) }

\* where branch k of the list is after the removals of this step
Kept(k) == k - Cardinality({ j \in DOMAIN last'.to_remove : last'.to_remove[j] < k })

\* the spacing rescaled by the factor of either species
Rescaled(spacing) == {(spacing * 9) \div 10, (spacing * 6) \div 10}

\* the children that this pass has activated carry the values derived from a
\* tree particle of the pass
ParticleChildrenDerived ==
    \A i \in Activated :
        FreshChild(particles'[i]) =>
            \E j \in Slots :
                /\ Growing(particles[j])
                /\ particles'[i].tree_generation
                     = Some(Unwrap(particles[j].tree_generation) + 1)
                /\ particles'[i].tree_max_branches
                     = Some(Max(Unwrap(particles[j].tree_max_branches) - 1, 0))
                /\ Unwrap(particles'[i].tree_branch_spacing)
                     \in Rescaled(Unwrap(particles[j].tree_branch_spacing))

\* a child that this pass advances for the first time keeps what it was given
ParticleChildrenKeep ==
    \A i \in Slots :
        (FreshChild(particles[i]) /\ particles'[i].active
            /\ particles'[i].action_iterations = 1) =>
            /\ particles'[i].tree_generation = particles[i].tree_generation
            /\ particles'[i].tree_max_branches = particles[i].tree_max_branches
            /\ particles'[i].tree_branch_spacing = particles[i].tree_branch_spacing

\* the branches that this call has appended carry the values derived from a
\* branch of the list
BranchChildrenDerived ==
    \A c \in Appended :
        \E k \in DOMAIN branches :
            /\ branches'[c].generation = branches[k].generation + 1
            /\ branches'[c].max_branches = Max(branches[k].max_branches - 1, 0)
            /\ branches'[c].branch_spacing \in Rescaled(branches[k].branch_spacing)

\* a child that this call advances for the first time keeps what it was given
BranchChildrenKeep ==
    \A k \in DOMAIN branches :
        (branches[k].iterations = 0 /\ branches[k].generation > 1
            /\ \A j \in DOMAIN last'.to_remove : last'.to_remove[j] # k) =>
            /\ branches'[Kept(k)].iterations = 1
            /\ branches'[Kept(k)].generation = branches[k].generation
            /\ branches'[Kept(k)].max_branches = branches[k].max_branches
            /\ branches'[Kept(k)].branch_spacing = branches[k].branch_spacing

\* C26: with either host, the children of a branch event carry the parent's
\* generation plus one, its branch budget less one and never below zero, and
\* its spacing rescaled, and they still carry them after their first advance.
C26_ChildrenCarryDerivedValues ==
    [][/\ last'.op = "pass" => (ParticleChildrenDerived /\ ParticleChildrenKeep)
       /\ last'.op = "branches" => (BranchChildrenDerived /\ BranchChildrenKeep)]_vars

\* the tree particles that this pass moves off the canvas or against a wall
Terminating ==
    { j \in Slots :
        Growing(particles[j]) /\ TreeShouldRemove(TreeMoved(particles[j]), elements) }

\* no particle is activated where a terminating particle stood, and no cell
\* becomes a leaf
ParticleEndsBare ==
    /\ \A j \in Terminating : \A i \in Activated :
         particles'[i].x # particles[j].x \/ particles'[i].y # particles[j].y
    /\ Terminating # {} =>
         \A c \in DOMAIN elements : elements'[c] = "Leaf" => elements[c] = "Leaf"

\* a branch that left the grid or met a wall has pushed no child and stamped
\* nothing
BranchEndsBare ==
    \A k \in DOMAIN last'.turns :
        last'.turns[k].met \in {"edge", "wall"} =>
            last'.turns[k].children = 0 /\ ~last'.turns[k].stamped

\* C27: with either host, a tree unit that ends by leaving the grid or by
\* meeting a wall spawns no children and stamps no leaf.
C27_TerminationSpawnsNothing ==
    [][/\ last'.op = "pass" => ParticleEndsBare
       /\ last'.op = "branches" => BranchEndsBare]_vars

\* the children of a branch event of a tree of species tt and their spacing
ChildrenOf(tt) == IF tt = 0 THEN 2 ELSE 3

SpacingOf(tt, spacing) == IF tt = 0 THEN (spacing * 9) \div 10 ELSE (spacing * 6) \div 10

\* a branch event of the only active particle, with slots free for its children
ParticleChildrenBySpecies ==
    \A j \in Slots :
        (active_indices = << j >> /\ Growing(particles[j]) /\ BranchEventDue(particles[j])
            /\ Len(inactive_indices) >= 3) =>
            /\ Cardinality(Activated) = ChildrenOf(Unwrap(particles[j].tree_type))
            /\ \A i \in Activated :
                 particles'[i].tree_branch_spacing
                   = Some(SpacingOf(Unwrap(particles[j].tree_type),
                                    Unwrap(particles[j].tree_branch_spacing)))

\* the branch events of a call on the list
BranchChildrenBySpecies ==
    /\ \A k \in DOMAIN branches :
         last'.turns[k].children > 0 =>
             last'.turns[k].children = ChildrenOf(branches[k].tree_type)
    /\ \A c \in Appended :
         \E k \in DOMAIN branches :
             /\ last'.turns[k].children > 0
             /\ branches'[c].branch_spacing
                  = SpacingOf(branches[k].tree_type, branches[k].branch_spacing)

\* C28: with either host, a branch event spawns 2 children when the tree is of
\* species 0 and 3 when it is of species 1, and gives them the parent's spacing
\* times the factor of the species (0.9 and 0.6).
C28_ChildrenBySpecies ==
    [][/\ last'.op = "pass" => ParticleChildrenBySpecies
       /\ last'.op = "branches" => BranchChildrenBySpecies]_vars

\* the cell in which the point (x, y) of the canvas lies
CellOf(x, y) == xy_to_index(TruncU32(x), TruncU32(y))

\* a Tree particle that this pass has advanced and left active has stamped the
\* background cell it has come to
ParticleStamps ==
    \A j \in Slots :
        (/\ particles[j].active /\ particles[j].particle_type = "Tree"
         /\ particles'[j].active
         /\ particles'[j].action_iterations = particles[j].action_iterations + 1
         /\ particles'[j].x >= 0 /\ particles'[j].x < width * FP
         /\ particles'[j].y >= 0 /\ particles'[j].y < height * FP
         /\ elements[CellOf(particles'[j].x, particles'[j].y)] = "Background") =>
            elements'[CellOf(particles'[j].x, particles'[j].y)] = "Branch"

\* a branch that this call has advanced has stamped the background cell it has
\* come to (the stamp becomes a leaf when the branch ends there)
BranchStamps ==
    \A k \in DOMAIN last'.turns :
        (last'.turns[k].met = "grown" /\ elements[last'.turns[k].cell] = "Background") =>
            elements'[last'.turns[k].cell] \in {"Branch", "Leaf"}

\* C30: with either host, a growing tree unit stamps Branch into the background
\* cells it comes to, so a tree of particles writes the grid as a tree of the
\* branch list does.
C30_BothHostsStamp ==
    [][/\ last'.op = "pass" => ParticleStamps
       /\ last'.op = "branches" => BranchStamps]_vars

-----------------------------------------------------------------------------
\* SpecSprout: one tree of the branch list from its sprouting to its end.  A wet
\* soil cell stands on a floor of soil, under open sky or under a wall
\* SproutWallGap rows below the top row; the wet soil arm is called on it until
\* it has dried or sprouted, and process_tree_branches is called, frame after
\* frame, while there are branches.  The root has either angle, either spacing
\* (15 or 60) and either budget (1 or 3) of StartDraws; the turns of its
\* branches draw 0.
SproutWidth == 14

SproutHeight == 40

SproutWallGap == 4

SproutGrids ==
    { Orchard(SproutWidth, SproutHeight, SproutWidth \div 2, rows) :
        rows \in {{}, {SproutWallGap}} }

SproutStarts == [u1 : UnitDraws, k1 : EndDraws, k2 : EndDraws, b1 : {TRUE}]

SproutTurns == [u1 : {0}, u2 : {0}, u3 : {0}]

\* hist: the branches created so far, the budget of the root, the highest
\* generation created and the calls of process_tree_branches so far
SproutInit ==
    /\ width = SproutWidth
    /\ height = SproutHeight
    /\ elements \in SproutGrids
    /\ fall_into_void = FALSE
    /\ NoPool
    /\ branches = << >>
    /\ NoScan
    /\ last = NoLast
    /\ host = NoHost
    /\ hist = [created |-> 0, budget |-> 0, eldest |-> 0, frames |-> 0]

\* the highest generation among the branches bs, at least g
RECURSIVE Eldest(_, _)
Eldest(bs, g) ==
    IF bs = << >> THEN g
    ELSE Eldest(Tail(bs), IF Head(bs).generation > g THEN Head(bs).generation ELSE g)

\* execute_element_action is called on the wet soil cell
SproutWetSoil ==
    /\ \E i \in DOMAIN elements : \E d \in WetSoilDraws : \E t \in SproutStarts :
         /\ elements[i] = "WetSoil"
         /\ WetSoilVisit(i, d, t)
    /\ hist' = IF Len(branches') > Len(branches)
               THEN [hist EXCEPT !.created = @ + 1,
                                 !.budget = branches'[Len(branches')].max_branches,
                                 !.eldest = Eldest(branches', @)]
               ELSE hist
    /\ UNCHANGED scanVars
    /\ FrameRest

\* run_simulation_frame calls process_tree_branches
SproutProcess ==
    /\ branches # << >>
    /\ \E ds \in BranchDraws(Len(branches), SproutTurns) :
         \E r \in {process_tree_branches(elements, branches, ds)} : Processed(r)
    /\ hist' = [hist EXCEPT !.created = @ + SumChildren(last'.turns, Len(branches)),
                            !.eldest = Eldest(branches', @),
                            !.frames = @ + 1]
    /\ UNCHANGED scanVars
    /\ FrameRest

SproutNext == SproutWetSoil \/ SproutProcess

\* the branches of a tree whose root has the budget m: the root, and for each
\* of its m branch events two children of budget m - 1
RECURSIVE TreeBound(_)
TreeBound(m) == IF m = 0 THEN 1 ELSE 1 + 2 * m * TreeBound(m - 1)

\* the frames go on: process_tree_branches is called again and again
SpecSprout == SproutInit /\ [][SproutNext]_vars /\ WF_vars(SproutProcess)

\* no wet soil is left: nothing can sprout any more
SproutingOver == \A i \in DOMAIN elements : elements[i] # "WetSoil"

\* C29: a tree started by the wet soil arm is finite: its root has a budget of
\* at most 3, no branch of a generation above 4 is ever created, the branches
\* it creates number at most TreeBound of the root's budget (79 at most), and
\* once nothing can sprout any more the branch list becomes empty.
C29_TreeIsFinite ==
    /\ [](/\ hist.budget <= 3
          /\ hist.eldest <= 4
          /\ \A k \in DOMAIN branches : branches[k].generation <= 4
          /\ hist.created <= TreeBound(hist.budget))
    /\ (SproutingOver ~> (branches = << >>))

\* a tree that has created a branch of generation 4 and has ended
C29_Witness ==
    /\ hist.eldest = 4
    /\ hist.created > 3
    /\ SproutingOver
    /\ branches = << >>

\* a tree whose root had a budget of 1 and that has created all 3 of its branches
C29_WitnessFull ==
    /\ hist.budget = 1
    /\ hist.created = TreeBound(1)
    /\ branches = << >>

-----------------------------------------------------------------------------
\* SpecBlaze: one call of execute_element_action on a fire cell in the middle
\* column of a small grid.  Each of the cells that share an edge with it holds
\* nothing, water, salt water or one of the classes the arm can light; every
\* draw of the arm that looks for a tag on the grid goes both ways.
BlazeWidth == 3

BlazeHeight == 3

BlazeTags ==
    {"Background", "Water", "SaltWater", "Plant", "Fuse", "Branch", "Leaf", "Wax", "Oil"}

BlazeSideTags == {"Background", "Wax", "Oil"}

BlazeGrids ==
    { FireAt(BlazeWidth, BlazeHeight, BlazeWidth \div 2, y, f) :
        y \in 0 .. 1,
        f \in [up : BlazeTags, down : BlazeTags, left : BlazeTags, right : BlazeSideTags] }

\* the draw of each step, by the tag the step looks for
BlazeDrawOf ==
    [Water |-> "c1", SaltWater |-> "c1", Plant |-> "c2", Fuse |-> "c3", Branch |-> "c4",
     Leaf |-> "c5", Wax |-> "c6", Oil |-> "c8"]

BlazeDrawValues(els, n) ==
    IF \E t \in DOMAIN BlazeDrawOf : BlazeDrawOf[t] = n /\ Count(els, t) > 0
    THEN BOOLEAN ELSE {FALSE}

BlazeDraws(els) ==
    [c1 : BlazeDrawValues(els, "c1"), c2 : BlazeDrawValues(els, "c2"),
     c3 : BlazeDrawValues(els, "c3"), c4 : BlazeDrawValues(els, "c4"),
     c5 : BlazeDrawValues(els, "c5"), c6 : BlazeDrawValues(els, "c6"),
     c7 : BOOLEAN, c8 : BlazeDrawValues(els, "c8"), c9 : BOOLEAN,
     c10 : IF Count(els, "Oil") > 0 THEN BOOLEAN ELSE {FALSE}, coin : BOOLEAN]

\* the steps of the arm whose draw came up and whose probe found a cell
FireStages(els, x, y, i, d) ==
    { s \in {"Water", "SaltWater"} : d.c1 /\ IsSome(bordering(els, x, y, i, s, d.coin)) }
    \cup { s \in {"Plant", "Fuse", "Branch", "Leaf", "Oil"} :
             d[BlazeDrawOf[s]] /\ IsSome(bordering_adjacent(els, x, y, i, s, d.coin)) }
    \cup { s \in {"Wax"} : d.c6 /\ IsSome(bordering(els, x, y, i, "Wax", d.coin)) }
    \cup { s \in {"Rise"} : d.c7 /\ IsSome(above(els, y, i, "Background")) }
    \cup { s \in {"Out"} : d.c9 /\ ~HasFlammable(els, x, y, d.c10) }

BlazeInit == FrameInitWith(BlazeWidth, BlazeHeight, BlazeGrids, FALSE)

\* the one call; last.could holds the steps that could have taken effect
BlazeVisit ==
    /\ last = NoLast
    /\ \E i \in DOMAIN elements : \E d \in BlazeDraws(elements) :
         /\ elements[i] = "Fire"
         /\ elements' = execute_element_action(elements, index_to_xy(i)[1], index_to_xy(i)[2],
                                               i, d, fall_into_void)
         /\ last' = [op |-> "blaze", i |-> i, before |-> elements,
                     could |-> FireStages(elements, index_to_xy(i)[1], index_to_xy(i)[2],
                                          i, d)]
    /\ UNCHANGED << branches, scanVars, hist >>
    /\ FrameRest

BlazeNext == BlazeVisit

SpecBlaze == BlazeInit /\ [][BlazeNext]_vars

\* the cells that the call has written
BlazeChanged == { k \in DOMAIN elements : elements[k] # last.before[k] }

\* the outcomes that show on the grid after the call, each with the cells it
\* wrote: the fire out with a water or salt water cell turned to steam, a cell of
\* a class lit (for wax, with the falling wax it may drop), the fire risen into
\* the empty cell above, the fire gone out by itself, or nothing at all
BlazeOutcomes ==
    { s \in {"Water", "SaltWater"} :
        \E j \in BlazeChanged :
            /\ last.before[j] = s /\ elements[j] = "Steam"
            /\ elements[last.i] = "Background"
            /\ BlazeChanged = {j, last.i} }
    \cup { s \in {"Plant", "Fuse", "Branch", "Leaf", "Oil"} :
             \E j \in BlazeChanged :
                 /\ last.before[j] = s /\ elements[j] = "Fire"
                 /\ BlazeChanged = {j} }
    \cup { s \in {"Wax"} :
             \E j \in BlazeChanged :
                 /\ last.before[j] = "Wax" /\ elements[j] = "Fire"
                 /\ \A k \in BlazeChanged \ {j} :
                      last.before[k] = "Background" /\ elements[k] = "FallingWax"
                 /\ Cardinality(BlazeChanged) <= 2 }
    \cup { s \in {"Rise"} :
             /\ last.i >= width
             /\ BlazeChanged = {last.i - width}
             /\ last.before[last.i - width] = "Background"
             /\ elements[last.i - width] = "Fire" }
    \cup { s \in {"Out"} : BlazeChanged = {last.i} /\ elements[last.i] = "Background" }
    \cup { s \in {"None"} : BlazeChanged = {} }

\* the first step of a chain that could take effect
FirstOf(order, could) ==
    IF \E k \in DOMAIN order : order[k] \in could
    THEN order[CHOOSE k \in DOMAIN order :
                  order[k] \in could /\ \A j \in 1 .. k - 1 : order[j] \notin could]
    ELSE "None"

\* the chain with every ignition ahead of the rise
IgnitionsFirst ==
    << "Water", "SaltWater", "Plant", "Fuse", "Branch", "Leaf", "Wax", "Oil", "Rise", "Out" >>

\* the chain with the oil step behind the rise
OilAfterRise ==
    << "Water", "SaltWater", "Plant", "Fuse", "Branch", "Leaf", "Wax", "Rise", "Oil", "Out" >>

\* C32: the fire arm is a first-success-wins chain: extinguish on water, then on
\* salt water; then ignition of plant, fuse, branch, leaf, wax and oil; then the
\* rise; then the flame-out.  The call shows exactly one outcome, that of the
\* first step of this chain whose draw and probe succeeded, and nothing when no
\* step succeeded.
C32_FireChain ==
    last.op = "blaze" => BlazeOutcomes = {FirstOf(IgnitionsFirst, last.could)}

\* C32 as the code has it: the same chain with the oil step after the rise and
\* before the flame-out.
C32_FireChainOilAfterRise ==
    last.op = "blaze" => BlazeOutcomes = {FirstOf(OilAfterRise, last.could)}

\* the rise and the oil step could both take effect: the fire has risen and
\* the oil is as it was
C32_Witness ==
    /\ last.op = "blaze"
    /\ {"Rise", "Oil"} \subseteq last.could
    /\ BlazeOutcomes = {"Rise"}
    /\ Count(elements, "Oil") = Count(last.before, "Oil")
    /\ Count(elements, "Fire") = 2

-----------------------------------------------------------------------------
(* physics.rs, the arms of the substances that react to fire.  An arm that   *)
(* spawns a particle takes the pool as an Option (None: the caller supplied  *)
(* no particle_list) and gives back the grid and the pool; x as f32 is x * FP. *)

\* a do_rise that does not look at the row it is in
do_rise_NoEdge(els, x, y, i, rise_ok, adjacent_ok, coin, fiv) ==
    LET risen == IF rise_ok THEN above_adjacent(els, x, y, i, "Background") ELSE None
        new_i == IF risen = None /\ adjacent_ok
                 THEN adjacent(els, x, i, "Background", coin) ELSE risen
    IN  IF IsSome(new_i) THEN MoveTo(els, i, Unwrap(new_i), "Background")
        ELSE Unmoved(els)

\* do_rise: rise_ok and adjacent_ok are its two gen_bool draws
do_rise(els, x, y, i, rise_ok, adjacent_ok, coin, fiv) ==
    IF rise_ok /\ y = 0
    THEN (IF fiv THEN [grid |-> set_index(els, i, "Background"), moved |-> TRUE]
          ELSE Unmoved(els))
    ELSE LET risen == IF rise_ok THEN above_adjacent(els, x, y, i, "Background") ELSE None
             new_i == IF risen = None /\ adjacent_ok
                      THEN adjacent(els, x, i, "Background", coin) ELSE risen
         IN  IF IsSome(new_i) THEN MoveTo(els, i, Unwrap(new_i), "Background")
             ELSE Unmoved(els)

\* every cell of cells that is on the grid takes the tag `replace`
Blast(els, cells, replace) ==
    [k \in DOMAIN els |-> IF k \in cells THEN replace ELSE els[k]]

\* the 8 positions around i that the gunpowder arm writes: each is left out
\* when it would lie beyond the edge that (x, y) is on
BlastRing(x, y, i) ==
    { xy_to_index(xx, yy) :
        xx \in Max(x - 1, 0) .. Min(x + 1, max_x),
        yy \in Max(y - 1, 0) .. Min(y + 1, max_y) } \ {i}

\* the 4 positions two cells away, with the draw that each consumes when it
\* holds gunpowder
BlastReach(x, y, i, d) ==
    (IF y >= 2 THEN {<< i - 2 * width, d.c4 >>} ELSE {})
    \cup (IF y + 2 <= max_y THEN {<< i + 2 * width, d.c5 >>} ELSE {})
    \cup (IF x >= 2 THEN {<< i - 2, d.c6 >>} ELSE {})
    \cup (IF x + 2 <= max_x THEN {<< i + 2, d.c7 >>} ELSE {})

\* d.c1: the 0.95 draw, d.c2: burn, d.c3: the extended explosion, d.c8: gravity
GunpowderArm(els, x, y, i, d, fiv) ==
    IF d.c1 /\ IsSome(bordering(els, x, y, i, "Fire", d.coin))
    THEN LET replace == IF d.c2 THEN "Fire" ELSE "Gunpowder"
             ring == Blast(els, { j \in BlastRing(x, y, i) \cup {i} : j < len(els) }, replace)
         IN  IF d.c2 /\ d.c3
             THEN Blast(ring, { p[1] : p \in { q \in BlastReach(x, y, i, d) :
                                                 /\ q[1] < len(els)
                                                 /\ (get_index(ring, q[1]) # "Gunpowder"
                                                       \/ q[2]) } },
                        "Fire")
             ELSE ring
    ELSE do_gravity(els, x, y, i, TRUE, d.c8, d.coin, fiv).grid

\* a spawn that makes every particle a Tree particle
Spawned_Tree(pl, particle_type, x, y, i) ==
    IF IsSome(pl) THEN Some(add_active_particle(Unwrap(pl), "Tree", x * FP, y * FP, i).pool)
    ELSE pl

\* `if let Some(plist) = particle_list { plist.add_active_particle(..) }`
Spawned(pl, particle_type, x, y, i) ==
    IF IsSome(pl) THEN Some(add_active_particle(Unwrap(pl), particle_type, x * FP, y * FP, i).pool)
    ELSE pl

\* d.c1: the 0.25 draw, d.c2: gravity.  Both ends of the spawn write Fire.
NapalmArm(els, pl, x, y, i, d, fiv) ==
    IF d.c1 /\ IsSome(bordering(els, x, y, i, "Fire", d.coin))
    THEN [grid |-> set_index(els, i, "Fire"), pool |-> Spawned(pl, "Napalm", x, y, i)]
    ELSE [grid |-> do_gravity(els, x, y, i, TRUE, d.c2, d.coin, fiv).grid, pool |-> pl]

\* d.c1: the 0.60 draw
C4Arm(els, pl, x, y, i, d) ==
    IF d.c1 /\ IsSome(bordering(els, x, y, i, "Fire", d.coin))
    THEN [grid |-> set_index(els, i, "Fire"), pool |-> Spawned(pl, "C4", x, y, i)]
    ELSE [grid |-> els, pool |-> pl]

\* the movement steps of the charged nitro arm; d.c1: gravity, d.c2 to d.c5:
\* the sinks through soil, wet soil, nitro and pollen
ChargedNitroMoves(els, x, y, i, d, fiv) ==
    LET gr == do_gravity(els, x, y, i, TRUE, d.c1, d.coin, fiv)
        s1 == do_density_sink(els, x, y, i, "Soil", TRUE, d.c2)
        s2 == do_density_sink(els, x, y, i, "WetSoil", TRUE, d.c3)
        s3 == do_density_sink(els, x, y, i, "Nitro", TRUE, d.c4)
        s4 == do_density_sink(els, x, y, i, "Pollen", TRUE, d.c5)
    IN  IF gr.moved THEN gr
        ELSE IF y < max_y /\ s1.moved THEN s1
        ELSE IF y < max_y /\ s2.moved THEN s2
        ELSE IF y < max_y /\ s3.moved THEN s3
        ELSE IF y < max_y /\ s4.moved THEN s4
        ELSE Unmoved(els)

\* the add's result is dropped; the cell is set to Fire either way
ChargedNitroArm(els, pl, x, y, i, d, fiv) ==
    LET mv == ChargedNitroMoves(els, x, y, i, d, fiv) IN
    IF mv.moved THEN [grid |-> mv.grid, pool |-> pl]
    ELSE IF IsSome(bordering_adjacent(els, x, y, i, "Fire", d.coin))
    THEN [grid |-> set_index(els, i, "Fire"),
          pool |-> Spawned(pl, "ChargedNitro", x, y, i)]
    ELSE [grid |-> els, pool |-> pl]

\* check_radius
MethaneRadius == 8

\* an active methane particle lies within check_radius of (x, y)
MethaneNear(pool, x, y) ==
    \E k \in 1 .. Len(pool.active_indices) :
        LET p == pool.particles[pool.active_indices[k]] IN
        /\ p.particle_type = "Methane"
        /\ (p.x - x * FP) * (p.x - x * FP) + (p.y - y * FP) * (p.y - y * FP)
              <= MethaneRadius * MethaneRadius * FP * FP

\* the gas-permeable tags of the methane arm
Permeable == {"Sand", "Water", "Salt", "SaltWater", "Oil", "Gunpowder", "Concrete", "Rock"}

\* the methane arm past its fire step: the rise (d.c3, d.c4), then the swap
\* with a permeable cell above (d.c5)
MethaneRest(els, x, y, i, d, fiv) ==
    LET rise == do_rise(els, x, y, i, d.c3, d.c4, d.coin, fiv) IN
    IF rise.moved THEN rise.grid
    ELSE IF d.c5 /\ y > 0 /\ get_index(els, AboveIdx(i)) \in Permeable
    THEN set_index(set_index(els, AboveIdx(i), "Methane"), i, get_index(els, AboveIdx(i)))
    ELSE els

\* should_create_particle; d.c1: one of the 0.5 draws of the particles in range
\* came up, d.c2: the 0.25 draw of the fire step
MethaneLit(els, pl, x, y, i, d) ==
    \/ IsSome(pl) /\ d.c1 /\ MethaneNear(Unwrap(pl), x, y)
    \/ d.c2 /\ IsSome(bordering(els, x, y, i, "Fire", d.coin))

MethaneArm(els, pl, x, y, i, d, fiv) ==
    IF MethaneLit(els, pl, x, y, i, d)
    THEN [grid |-> set_index(els, i, "Fire"), pool |-> Spawned(pl, "Methane", x, y, i)]
    ELSE [grid |-> MethaneRest(els, x, y, i, d, fiv), pool |-> pl]

ReactiveElements == {"Gunpowder", "Napalm", "C4", "ChargedNitro", "Methane"}

\* execute_element_action on a cell of one of these tags, with the pool
ReactiveArm(els, pl, x, y, i, d, fiv) ==
    CASE get_index(els, i) = "Gunpowder" ->
           [grid |-> GunpowderArm(els, x, y, i, d, fiv), pool |-> pl]
      [] get_index(els, i) = "Napalm" -> NapalmArm(els, pl, x, y, i, d, fiv)
      [] get_index(els, i) = "C4" -> C4Arm(els, pl, x, y, i, d)
      [] get_index(els, i) = "ChargedNitro" -> ChargedNitroArm(els, pl, x, y, i, d, fiv)
      [] get_index(els, i) = "Methane" -> MethaneArm(els, pl, x, y, i, d, fiv)

\* the arm took its fire step: fire touches the cell and the step's draw came up
FireContact(els, pl, x, y, i, d, fiv) ==
    CASE get_index(els, i) \in {"Gunpowder", "Napalm", "C4"} ->
           d.c1 /\ IsSome(bordering(els, x, y, i, "Fire", d.coin))
      [] get_index(els, i) = "ChargedNitro" ->
           /\ ~ChargedNitroMoves(els, x, y, i, d, fiv).moved
           /\ IsSome(bordering_adjacent(els, x, y, i, "Fire", d.coin))
      [] get_index(els, i) = "Methane" ->
           /\ ~(IsSome(pl) /\ d.c1 /\ MethaneNear(Unwrap(pl), x, y))
           /\ d.c2 /\ IsSome(bordering(els, x, y, i, "Fire", d.coin))

\* SpecReact: one call of execute_element_action on a gunpowder, napalm, C4,
\* charged nitro or methane cell anywhere on a small square grid.  Each cell
\* that shares an edge with it holds its own tag, nothing or fire; the cells at
\* its corners hold nothing or fire.  The pool has ReactCapacity slots of which
\* any number is taken by methane particles at the middle of the grid; the
\* caller supplies the pool (as run_simulation_frame does) or none.
ReactDim == 3

ReactCapacity == 1

ReactGridsOf(t) ==
    { ArmAt(ReactDim, ReactDim, x, y, t, f, corner) :
        x \in 0 .. (ReactDim - 1), y \in 0 .. (ReactDim - 1),
        f \in [up : {t, "Background", "Fire"}, down : {t, "Background", "Fire"},
               left : {"Background", "Fire"}, right : {"Background", "Fire"}],
        corner \in {"Background", "Fire"} }

ReactGrids == UNION { ReactGridsOf(t) : t \in ReactiveElements }

RECURSIVE Filled(_, _)
\* the pool after k methane particles were added at the middle of the grid
Filled(pl, k) ==
    IF k = 0 THEN pl
    ELSE add_active_particle(Filled(pl, k - 1), "Methane", (ReactDim \div 2) * FP,
                             (ReactDim \div 2) * FP,
                             (ReactDim \div 2) * ReactDim + (ReactDim \div 2)).pool

ReactPools == { Filled(DefaultPool(ReactCapacity), k) : k \in 0 .. ReactCapacity }

\* the draws of an arm that can matter on these grids
ReactFreeDraws(t) ==
    CASE t = "Gunpowder" -> {"c1", "c2", "c3", "c8", "coin"}
      [] t = "Napalm" -> {"c1", "c2", "coin"}
      [] t = "C4" -> {"c1"}
      [] t = "ChargedNitro" -> {"c1", "coin"}
      [] t = "Methane" -> {"c1", "c2", "c3", "c4"}

ReactValues(t, n) == IF n \in ReactFreeDraws(t) THEN BOOLEAN ELSE {FALSE}

ReactDraws(t) ==
    [c1 : ReactValues(t, "c1"), c2 : ReactValues(t, "c2"), c3 : ReactValues(t, "c3"),
     c4 : ReactValues(t, "c4"), c5 : {FALSE}, c6 : {FALSE}, c7 : {FALSE},
     c8 : ReactValues(t, "c8"), c9 : {FALSE}, c10 : {FALSE},
     coin : ReactValues(t, "coin")]

ReactInit ==
    /\ width = ReactDim
    /\ height = ReactDim
    /\ elements \in ReactGrids
    /\ fall_into_void \in BOOLEAN
    /\ \E pl \in ReactPools : /\ particles = pl.particles
                              /\ active_indices = pl.active_indices
                              /\ inactive_indices = pl.inactive_indices
                              /\ particle_counts = pl.particle_counts
    /\ branches = << >>
    /\ NoScan
    /\ last = NoLast
    /\ host = NoHost
    /\ hist \in [supplied : BOOLEAN]

\* the one call; last holds the grid and the pool before it, whether the pool
\* was supplied and had a free slot, and whether the arm took its fire step
ReactVisit ==
    /\ last = NoLast
    /\ \E i \in DOMAIN elements :
         /\ elements[i] \in ReactiveElements
         /\ \E d \in ReactDraws(elements[i]) :
              \E pl \in {IF hist.supplied THEN Some(Pool) ELSE None} :
              \E r \in {ReactiveArm(elements, pl, index_to_xy(i)[1], index_to_xy(i)[2],
                                    i, d, fall_into_void)} :
                /\ elements' = r.grid
                /\ SetPool(IF IsSome(r.pool) THEN Unwrap(r.pool) ELSE Pool)
                /\ last' = [op |-> "react", i |-> i, before |-> elements, pool |-> Pool,
                            contact |-> FireContact(elements, pl, index_to_xy(i)[1],
                                                    index_to_xy(i)[2], i, d, fall_into_void),
                            lit |-> elements[i] = "Methane"
                                      /\ MethaneLit(elements, pl, index_to_xy(i)[1],
                                                    index_to_xy(i)[2], i, d)]
    /\ UNCHANGED << width, height, fall_into_void, branches, scanVars, hist, host >>

ReactNext == ReactVisit

SpecReact == ReactInit /\ [][ReactNext]_vars

\* the cells that the call has written with another tag
ReactChanged == { k \in DOMAIN elements : elements[k] # last.before[k] }

\* C33: when a gunpowder, napalm, C4, methane or charged nitro cell has reacted
\* to fire contact, the cell is Fire when its handler returns; and every cell
\* that the gunpowder handler has changed in its blast is Fire.
C33_ReactionLeavesFire ==
    (last.op = "react" /\ last.contact) =>
        /\ elements[last.i] = "Fire"
        /\ last.before[last.i] = "Gunpowder" => \A k \in ReactChanged : elements[k] = "Fire"

\* no slot was free for the call, or no pool was supplied to it
NoSlot == ~hist.supplied \/ last.pool.inactive_indices = << >>

\* C34: when a napalm, C4, methane or charged nitro cell is set off by fire
\* (or, for methane, by a methane particle nearby) while the pool has no free
\* slot or no pool is supplied, the handler returns with the cell set to Fire
\* in place, every other cell as before and the pool as before.
C34_ExhaustionIsSilent ==
    (/\ last.op = "react"
     /\ last.before[last.i] # "Gunpowder"
     /\ last.contact \/ last.lit
     /\ NoSlot) =>
        /\ elements = [last.before EXCEPT ![last.i] = "Fire"]
        /\ Pool = last.pool

\* a charged nitro cell beside fire with every slot of the supplied pool taken:
\* it is Fire now and the pool still holds its methane particles only
C34_Witness ==
    /\ last.op = "react"
    /\ last.before[last.i] = "ChargedNitro"
    /\ last.contact
    /\ hist.supplied
    /\ last.pool.inactive_indices = << >>
    /\ elements[last.i] = "Fire"
    /\ particle_counts[index("ChargedNitro")] = 0
    /\ Len(active_indices) = ReactCapacity

-----------------------------------------------------------------------------
(* physics.rs, the plant arm.                                                *)

\* the water found is directly above soil or wet soil
AboveSoil(els, grow_loc) ==
    /\ grow_loc \div width < max_y
    /\ grow_loc + width < len(els)
    /\ get_index(els, grow_loc + width) \in {"Soil", "WetSoil"}

\* a plant arm that grows into any water it finds
PlantArm_AnyWater(els, x, y, i, d) ==
    LET grow == bordering_adjacent(els, x, y, i, "Water", d.coin) IN
    IF d.c1 /\ IsSome(grow)
    THEN set_index(els, Unwrap(grow), get_index(els, i))
    ELSE IF d.c2 /\ IsSome(bordering(els, x, y, i, "Salt", d.coin))
    THEN set_index(els, i, "Background")
    ELSE els

\* d.c1: the growth draw, d.c2: the salt draw
PlantArm(els, x, y, i, d) ==
    LET grow == bordering_adjacent(els, x, y, i, "Water", d.coin) IN
    IF d.c1 /\ IsSome(grow) /\ ~AboveSoil(els, Unwrap(grow))
    THEN set_index(els, Unwrap(grow), get_index(els, i))
    ELSE IF d.c2 /\ IsSome(bordering(els, x, y, i, "Salt", d.coin))
    THEN set_index(els, i, "Background")
    ELSE els

\* SpecPlant: one call of execute_element_action on a plant cell anywhere on a
\* small grid.  The cells above it hold nothing or water, the cells beside and
\* below it nothing, water, soil or wet soil (the cell right below it: nothing
\* or water); every cell farther away holds the same tag, nothing or soil.
PlantWidth == 3

PlantHeight == 3

PlantSky == {"Background", "Water"}

PlantGround == {"Background", "Water", "Soil", "WetSoil"}

PlantAt(w, h, x, y, f) ==
    [i \in 0 .. (w * h - 1) |->
        LET dx == (i % w) - x
            dy == (i \div w) - y
        IN  IF dx = 0 /\ dy = 0 THEN "Plant"
            ELSE IF dx = 0 /\ dy = -1 THEN f.up
            ELSE IF dx = -1 /\ dy = -1 THEN f.ul
            ELSE IF dx = 1 /\ dy = -1 THEN f.ur
            ELSE IF dx = -1 /\ dy = 0 THEN f.left
            ELSE IF dx = 1 /\ dy = 0 THEN f.right
            ELSE IF dx = 0 /\ dy = 1 THEN f.down
            ELSE IF dx = -1 /\ dy = 1 THEN f.dl
            ELSE IF dx = 1 /\ dy = 1 THEN f.dr
            ELSE f.far]

PlantGrids ==
    { PlantAt(PlantWidth, PlantHeight, x, y, f) :
        x \in 0 .. PlantWidth - 1, y \in 0 .. PlantHeight - 1,
        f \in [up : PlantSky, ul : PlantSky, ur : PlantSky, left : PlantGround,
               right : PlantGround, down : PlantSky, dl : PlantGround, dr : PlantGround,
               far : {"Background", "Soil"}] }

PlantDraws ==
    [c1 : BOOLEAN, c2 : {FALSE}, c3 : {FALSE}, c4 : {FALSE}, c5 : {FALSE}, c6 : {FALSE},
     c7 : {FALSE}, c8 : {FALSE}, c9 : {FALSE}, c10 : {FALSE}, coin : BOOLEAN]

PlantInit == FrameInitWith(PlantWidth, PlantHeight, PlantGrids, FALSE)

\* the one call; last.grow is the water cell that the arm's probe found
PlantVisit ==
    /\ last = NoLast
    /\ \E i \in DOMAIN elements : \E d \in PlantDraws :
         /\ elements[i] = "Plant"
         /\ elements' = PlantArm(elements, index_to_xy(i)[1], index_to_xy(i)[2], i, d)
         /\ last' = [op |-> "plant", i |-> i, before |-> elements, draw |-> d.c1,
                     grow |-> bordering_adjacent(elements, index_to_xy(i)[1],
                                                 index_to_xy(i)[2], i, "Water", d.coin)]
    /\ UNCHANGED << branches, scanVars, hist >>
    /\ FrameRest

PlantNext == PlantVisit

SpecPlant == PlantInit /\ [][PlantNext]_vars

\* the water cells of els with soil or wet soil right below them
WaterOnSoil(els) ==
    { k \in DOMAIN els :
        /\ els[k] = "Water"
        /\ k + width \in DOMAIN els
        /\ els[k + width] \in {"Soil", "WetSoil"} }

\* C35: a call of the plant handler leaves every water cell that lies directly
\* above a Soil or WetSoil cell as water.
C35_WaterOnSoilIsKept ==
    last.op = "plant" => \A k \in WaterOnSoil(last.before) : elements[k] = "Water"

\* the growth draw came up and the probe found a water cell above soil: the
\* grid is as it was
C35_Witness ==
    /\ last.op = "plant"
    /\ last.draw
    /\ IsSome(last.grow)
    /\ Unwrap(last.grow) \in WaterOnSoil(last.before)
    /\ elements = last.before

-----------------------------------------------------------------------------
\* SpecRise: one call of do_rise on a steam cell or of do_gravity on a sand
\* cell, anywhere on a small grid; each cell that shares an edge with it and
\* all its corners hold nothing or wall; fall_into_void is on or off.
RiseWidth == 3

RiseHeight == 2

RiseGridsOf(t) ==
    { ArmAt(RiseWidth, RiseHeight, x, y, t, f, corner) :
        x \in 0 .. (RiseWidth - 1), y \in 0 .. (RiseHeight - 1),
        f \in [up : {"Background", "Wall"}, down : {"Background", "Wall"},
               left : {"Background", "Wall"}, right : {"Background", "Wall"}],
        corner \in {"Background", "Wall"} }

RiseGrids == RiseGridsOf("Steam") \cup RiseGridsOf("Sand")

RiseInit == \E fiv \in BOOLEAN : FrameInitWith(RiseWidth, RiseHeight, RiseGrids, fiv)

\* do_rise is called on a steam cell
RiseCall ==
    /\ last = NoLast
    /\ \E i \in DOMAIN elements : \E rise_ok, adjacent_ok, coin \in BOOLEAN :
         /\ elements[i] = "Steam"
         /\ elements' = do_rise(elements, index_to_xy(i)[1], index_to_xy(i)[2], i,
                                rise_ok, adjacent_ok, coin, fall_into_void).grid
         /\ last' = [op |-> "rise", i |-> i, before |-> elements, ok |-> rise_ok]
    /\ UNCHANGED << branches, scanVars, hist >>
    /\ FrameRest

\* do_gravity is called on a sand cell
GravityCall ==
    /\ last = NoLast
    /\ \E i \in DOMAIN elements : \E fall_adjacent, ok, coin \in BOOLEAN :
         /\ elements[i] = "Sand"
         /\ elements' = do_gravity(elements, index_to_xy(i)[1], index_to_xy(i)[2], i,
                                   fall_adjacent, ok, coin, fall_into_void).grid
         /\ last' = [op |-> "gravity", i |-> i, before |-> elements, ok |-> ok]
    /\ UNCHANGED << branches, scanVars, hist >>
    /\ FrameRest

RiseNext == RiseCall \/ GravityCall

SpecRise == RiseInit /\ [][RiseNext]_vars

\* the call was made on a cell of the row where its movement ends: the top row
\* for do_rise, the bottom row for do_gravity
AtBoundary ==
    \/ last.op = "rise" /\ last.i \div width = 0
    \/ last.op = "gravity" /\ last.i \div width = max_y

Vanished == elements = [last.before EXCEPT ![last.i] = "Background"]

Stayed == elements = last.before

\* the cell has moved into an empty cell beside it in its row
Sideways ==
    \E j \in {last.i - 1, last.i + 1} \cap DOMAIN elements :
        /\ j \div width = last.i \div width
        /\ last.before[j] = "Background"
        /\ elements = [last.before EXCEPT ![j] = last.before[last.i],
                                          ![last.i] = "Background"]

\* C36: a gas cell in the top row under do_rise, like a falling cell in the
\* bottom row under do_gravity, vanishes when fall_into_void is on and stays in
\* its cell when it is off (and stays when the primitive's draw fails); in
\* neither row does the primitive move the cell sideways.
C36_RiseMirrorsGravity ==
    AtBoundary =>
        /\ Vanished \/ Stayed
        /\ Vanished => fall_into_void /\ last.ok
        /\ ~Sideways

\* C36 as the code has it: when the first draw of the primitive succeeds the
\* cell vanishes (fall_into_void on) or stays (off) in either row; when it
\* fails, the falling cell stays and the gas cell stays or, on its second draw,
\* moves into an empty cell beside it in the top row.
C36_RiseMirrorsGravityButDrifts ==
    AtBoundary =>
        /\ last.ok => IF fall_into_void THEN Vanished ELSE Stayed
        /\ ~last.ok /\ last.op = "gravity" => Stayed
        /\ ~last.ok /\ last.op = "rise" => Stayed \/ Sideways

\* a steam cell of the top row has moved sideways
C36_Witness ==
    /\ last.op = "rise"
    /\ last.i \div width = 0
    /\ ~last.ok
    /\ Sideways
    /\ elements[last.i] = "Background"
    /\ Count(elements, "Steam") = 1

-----------------------------------------------------------------------------
(* physics.rs, rainbow_sand_times in do_gravity and do_density_sink: the map  *)
(* from a cell's index to the placement time of the rainbow sand in it, as a  *)
(* function on the set of its keys.                                           *)

\* HashMap::remove
TimesRemove(times, i) == [k \in DOMAIN times \ {i} |-> times[k]]

\* HashMap::insert
TimesInsert(times, i, v) == [k \in DOMAIN times \cup {i} |-> IF k = i THEN v ELSE times[k]]

\* a transfer that leaves the entry at i in place
TimesMoved_Copy(times, element, i, new_idx) ==
    IF element = "RainbowSand" /\ i \in DOMAIN times
    THEN TimesInsert(times, new_idx, times[i])
    ELSE times

\* "Transfer placement time if RainbowSand moved"
TimesMoved(times, element, i, new_idx) ==
    IF element = "RainbowSand" /\ i \in DOMAIN times
    THEN TimesInsert(TimesRemove(times, i), new_idx, times[i])
    ELSE times

\* "Remove placement time if RainbowSand falls into void"
TimesDropped(times, element, i) ==
    IF element = "RainbowSand" THEN TimesRemove(times, i) ELSE times

\* what do_gravity leaves of the map
GravityTimes(els, times, x, y, i, fall_adjacent, ok, coin, fiv) ==
    IF ~ok THEN times
    ELSE IF y >= max_y
         THEN (IF fiv THEN TimesDropped(times, get_index(els, i), i) ELSE times)
    ELSE IF IsSome(GravityTarget(els, x, y, i, fall_adjacent, coin))
         THEN TimesMoved(times, get_index(els, i), i,
                         Unwrap(GravityTarget(els, x, y, i, fall_adjacent, coin)))
    ELSE times

\* what do_density_sink leaves of the map
SinkTimes(els, times, x, y, i, lighter_than, sink_adjacent, ok) ==
    IF ~ok THEN times
    ELSE IF y >= max_y THEN times
    ELSE IF IsSome(SinkTarget(els, x, y, i, lighter_than, sink_adjacent))
         THEN TimesMoved(times, get_index(els, i), i,
                         Unwrap(SinkTarget(els, x, y, i, lighter_than, sink_adjacent)))
    ELSE times

\* the rainbow sand arm with the map; d.c1 and d.c2: the sinks through water
\* and salt water, d.c3: gravity
RainbowSandArm(els, times, x, y, i, d, fiv) ==
    LET s1 == do_density_sink(els, x, y, i, "Water", TRUE, d.c1)
        s2 == do_density_sink(els, x, y, i, "SaltWater", TRUE, d.c2)
    IN  IF y < max_y /\ s1.moved
        THEN [grid |-> s1.grid,
              times |-> SinkTimes(els, times, x, y, i, "Water", TRUE, d.c1)]
        ELSE IF y < max_y /\ s2.moved
        THEN [grid |-> s2.grid,
              times |-> SinkTimes(els, times, x, y, i, "SaltWater", TRUE, d.c2)]
        ELSE [grid |-> do_gravity(els, x, y, i, TRUE, d.c3, d.coin, fiv).grid,
              times |-> GravityTimes(els, times, x, y, i, TRUE, d.c3, d.coin, fiv)]

\* SpecGrain: one call of execute_element_action on a rainbow sand cell
\* anywhere on a small square grid; the cells that share an edge with it and
\* its corners hold nothing or water.  The map has at most GrainEntries
\* entries (an entry stays behind when another handler turns
\* rainbow sand into something else, and a loaded grid brings none) around the
\* grain; the entry at cell k holds the time k + 1.
GrainDim == 3

GrainEntries == 2

GrainGrids ==
    { ArmAt(GrainDim, GrainDim, x, y, "RainbowSand", f, corner) :
        x \in 0 .. (GrainDim - 1), y \in 0 .. (GrainDim - 1),
        f \in [up : {"Background", "Water"}, down : {"Background", "Water"},
               left : {"Background", "Water"}, right : {"Background", "Water"}],
        corner \in {"Background", "Water"} }

\* the maps with entries at cells that are the grain's cell i or touch it
GrainTimes(i) ==
    { [k \in keys |-> k + 1] :
        keys \in { s \in SUBSET { j \in 0 .. (GrainDim * GrainDim - 1) :
                                    /\ Abs((j % GrainDim) - (i % GrainDim)) <= 1
                                    /\ Abs((j \div GrainDim) - (i \div GrainDim)) <= 1 } :
                     Cardinality(s) <= GrainEntries } }

GrainDraws ==
    [c1 : BOOLEAN, c2 : {FALSE}, c3 : BOOLEAN, c4 : {FALSE}, c5 : {FALSE}, c6 : {FALSE},
     c7 : {FALSE}, c8 : {FALSE}, c9 : {FALSE}, c10 : {FALSE}, coin : BOOLEAN]

GrainInit ==
    /\ width = GrainDim
    /\ height = GrainDim
    /\ elements \in GrainGrids
    /\ fall_into_void \in BOOLEAN
    /\ NoPool
    /\ branches = << >>
    /\ NoScan
    /\ last = NoLast
    /\ host = NoHost
    /\ \E i \in DOMAIN elements :
         elements[i] = "RainbowSand" /\ hist \in [times : GrainTimes(i)]

\* the one call; last holds the grid and the map before it
GrainVisit ==
    /\ last = NoLast
    /\ \E i \in DOMAIN elements : \E d \in GrainDraws :
         /\ elements[i] = "RainbowSand"
         /\ \E r \in {RainbowSandArm(elements, hist.times, index_to_xy(i)[1],
                                     index_to_xy(i)[2], i, d, fall_into_void)} :
              /\ elements' = r.grid
              /\ hist' = [times |-> r.times]
         /\ last' = [op |-> "grain", i |-> i, before |-> elements, times |-> hist.times]
    /\ UNCHANGED << branches, scanVars >>
    /\ FrameRest

GrainNext == GrainVisit

SpecGrain == GrainInit /\ [][GrainNext]_vars

\* the cells where the grain of cell last.i is after the call: its own cell when
\* it stayed, the cell it moved to, none when it fell into the void
GrainAt == { j \in DOMAIN elements : elements[j] = "RainbowSand" }

\* the entry of cell k is as it was before the call
EntryKept(k) ==
    /\ k \in DOMAIN hist.times <=> k \in DOMAIN last.times
    /\ k \in DOMAIN hist.times => hist.times[k] = last.times[k]

\* C37: when the call has moved the rainbow sand of cell i to a cell j, the map
\* has no entry at i and, when it had one at i, holds its value at j; when the
\* grain fell into the void the map has no entry at i; the entries of all other
\* cells are as before, and so is the whole map when the grain stayed.
C37_CounterFollowsGrain ==
    last.op = "grain" =>
        /\ GrainAt = {last.i} => hist.times = last.times
        /\ GrainAt # {last.i} =>
             /\ last.i \notin DOMAIN hist.times
             /\ \A j \in GrainAt :
                  last.i \in DOMAIN last.times =>
                      j \in DOMAIN hist.times /\ hist.times[j] = last.times[last.i]
             /\ \A k \in DOMAIN elements \ (GrainAt \cup {last.i}) : EntryKept(k)

\* the grain had an entry and sank into a water cell that had a stale one: the
\* map holds the time of the grain at the new cell and nothing else
C37_Witness ==
    /\ last.op = "grain"
    /\ last.i \in DOMAIN last.times
    /\ \E j \in GrainAt :
         /\ j # last.i
         /\ last.before[j] = "Water"
         /\ elements[last.i] = "Water"
         /\ j \in DOMAIN last.times
         /\ DOMAIN hist.times = {j}
         /\ hist.times[j] = last.i + 1

-----------------------------------------------------------------------------
\* SpecBeam: a charged nitro particle in the pool's one slot, spawned by the
\* charged nitro arm at the cell it has just set to Fire, in one of the two
\* lowest rows of a narrow, tall grid (the beam climbs 30 rows a tick).  The
\* column above the origin holds no, one or two wall cells at any rows; the
\* passes of update_particles follow.
BeamWidth == 2

BeamHeight == 40

BeamMaxIterations == 3

\* fire at (x, y), wall in column x at each row of rows
BeamGrid(w, h, x, y, rows) ==
    [i \in 0 .. (w * h - 1) |->
        IF i = y * w + x THEN "Fire"
        ELSE IF i % w = x /\ (i \div w) \in rows THEN "Wall"
        ELSE "Background"]

BeamGrids ==
    { BeamGrid(BeamWidth, BeamHeight, x, y, rows) :
        x \in 0 .. BeamWidth - 1, y \in {BeamHeight - 2, BeamHeight - 1},
        rows \in {{}} \cup { {a, b} : a, b \in 0 .. BeamHeight - 3 } }

BeamDraws == Draws({0}, {FALSE}, EndDraws)

BeamInit == PoolInitWith(1, BeamWidth, BeamHeight, BeamGrids)

\* the charged nitro arm's add_active_particle at the cell it sets to Fire
BeamSpawn ==
    /\ last = NoLast
    /\ \E i \in DOMAIN elements :
         /\ elements[i] = "Fire"
         /\ Spawn({"ChargedNitro"}, index_to_xy(i)[1], index_to_xy(i)[2])

BeamPass == Pass(BeamDraws, BeamMaxIterations)

BeamNext == BeamSpawn \/ BeamPass

SpecBeam == BeamInit /\ [][BeamNext]_vars

\* the active charged nitro particles that a pass has advanced
Beams ==
    { i \in DOMAIN particles :
        /\ particles[i].active
        /\ particles[i].particle_type = "ChargedNitro"
        /\ particles[i].action_iterations > 0 }

\* the rows at or above the cell init_i that hold a wall in its column
WallRowsAbove(init_i) ==
    { r \in 0 .. (init_i \div width) : elements[r * width + (init_i % width)] = "Wall" }

\* the rows that a scan from init_i looks at with a stride of n rows: index 0
\* is not looked at
Sampled(init_i, n) ==
    { r \in 0 .. (init_i \div width) :
        ((init_i \div width) - r) % n = 0 /\ r * width + (init_i % width) > 0 }

\* the strides of the scan in rows
BeamStrides == { 3 + FromRange(0, 2, k) : k \in EndDraws }

RowMax(s) == CHOOSE r \in s : \A q \in s : q <= r

\* C38: a charged nitro particle never gets above the nearest wall over its
\* origin: while it is active, its y is at least the row of the lowest Wall cell
\* that lies above the origin in the origin's column.
C38_BeamStopsAtNearestWall ==
    \A i \in Beams :
        WallRowsAbove(particles[i].init_i) # {} =>
            particles[i].y >= RowMax(WallRowsAbove(particles[i].init_i)) * FP

\* C38 as the code has it: the stopping row min_y is the row of the nearest
\* wall among the rows that the scan samples (every 3rd to 5th row from the
\* origin upwards), or -1 when none of them holds a wall; while the particle is
\* active its y is on the grid and above min_y, so that it is removed in the
\* pass in which it reaches min_y or leaves the grid.
C38_BeamStopsAtSampledWall ==
    \A i \in Beams :
        LET p == particles[i] IN
        /\ IsSome(p.min_y)
        /\ \E n \in BeamStrides :
             Unwrap(p.min_y) =
                 IF Sampled(p.init_i, n) \cap WallRowsAbove(p.init_i) = {} THEN -FP
                 ELSE RowMax(Sampled(p.init_i, n) \cap WallRowsAbove(p.init_i)) * FP
        /\ p.y > Unwrap(p.min_y)
        /\ p.y >= 0

\* a beam that is past a wall of its column: the scan did not sample that row
C38_Witness ==
    \E i \in Beams :
        /\ WallRowsAbove(particles[i].init_i) # {}
        /\ particles[i].y < RowMax(WallRowsAbove(particles[i].init_i)) * FP
        /\ particles[i].min_y # Some(-FP)

-----------------------------------------------------------------------------
\* SpecEdge: one call of a neighbourhood probe on any cell of a grid of any
\* size up to EdgeMaxWidth x EdgeMaxHeight that holds sand in at most two
\* cells, for either tag as the target.  last holds the call and its result.
EdgeMaxWidth == 3

EdgeMaxHeight == 3

EdgeGrids(w, h) ==
    { [i \in 0 .. (w * h - 1) |-> IF i \in {a, b} THEN "Sand" ELSE "Background"] :
        a, b \in -1 .. (w * h - 1) }

EdgeInit ==
    /\ width \in 1 .. EdgeMaxWidth
    /\ height \in 1 .. EdgeMaxHeight
    /\ elements \in EdgeGrids(width, height)
    /\ fall_into_void = FALSE
    /\ NoPool
    /\ branches = << >>
    /\ NoScan
    /\ last = NoLast
    /\ host = NoHost
    /\ hist = FrameHist(elements)

EdgeProbes ==
    {"below", "below_adjacent", "above", "above_adjacent", "adjacent", "bordering",
     "bordering_adjacent"}

\* the probe fn called at (x, y) with i = xy_to_index(x, y)
EdgeProbe(fn, els, x, y, i, target, coin) ==
    CASE fn = "below" -> below(els, y, i, target)
      [] fn = "below_adjacent" -> below_adjacent(els, x, y, i, target)
      [] fn = "above" -> above(els, y, i, target)
      [] fn = "above_adjacent" -> above_adjacent(els, x, y, i, target)
      [] fn = "adjacent" -> adjacent(els, x, i, target, coin)
      [] fn = "bordering" -> bordering(els, x, y, i, target, coin)
      [] fn = "bordering_adjacent" -> bordering_adjacent(els, x, y, i, target, coin)

EdgeCall(fn) ==
    /\ last = NoLast
    /\ \E x \in 0 .. max_x, y \in 0 .. max_y, target \in {"Sand", "Background"},
          coin \in BOOLEAN :
         last' = [op |-> "edge", fn |-> fn, x |-> x, y |-> y, target |-> target,
                  result |-> EdgeProbe(fn, elements, x, y, xy_to_index(x, y), target, coin)]
    /\ UNCHANGED << elements, branches, scanVars, hist >>
    /\ FrameRest

EdgeBelow == EdgeCall("below")

EdgeBelowAdjacent == EdgeCall("below_adjacent")

EdgeAbove == EdgeCall("above")

EdgeAboveAdjacent == EdgeCall("above_adjacent")

EdgeAdjacent == EdgeCall("adjacent")

EdgeBordering == EdgeCall("bordering")

EdgeBorderingAdjacent == EdgeCall("bordering_adjacent")

EdgeNext ==
    \/ EdgeBelow \/ EdgeBelowAdjacent \/ EdgeAbove \/ EdgeAboveAdjacent
    \/ EdgeAdjacent \/ EdgeBordering \/ EdgeBorderingAdjacent

SpecEdge == EdgeInit /\ [][EdgeNext]_vars

\* C40: on a grid of any size, the index that below, below_adjacent, above,
\* above_adjacent, adjacent, bordering or bordering_adjacent returns for an
\* in-range cell (x, y) is on the grid, holds the target tag and is a neighbour
\* of (x, y): its column and its row differ from x and y by at most 1, and it is
\* not the cell itself (so no probe at the left or right edge wraps into
\* another row).
C40_ProbesReturnNeighbours ==
    (last.op = "edge" /\ IsSome(last.result)) =>
        LET j == Unwrap(last.result) IN
        /\ j \in DOMAIN elements
        /\ elements[j] = last.target
        /\ j # last.y * width + last.x
        /\ Abs((j % width) - last.x) <= 1
        /\ Abs((j \div width) - last.y) <= 1

\* a probe at the left edge found the target in its own column while the cell
\* before its cell in the index order, at the right edge of the row above,
\* holds the target too
C40_Witness ==
    /\ last.op = "edge"
    /\ last.fn = "bordering_adjacent"
    /\ last.x = 0
    /\ last.y > 0
    /\ width > 1
    /\ elements[last.y * width - 1] = last.target
    /\ last.target = "Sand"
    /\ IsSome(last.result)
    /\ Unwrap(last.result) % width = 0

-----------------------------------------------------------------------------
(* physics.rs, the steam and soil arms, and execute_element_action as        *)
(* run_simulation_frame calls it: with the pool and the branch list.          *)

\* d.c1, d.c2: the draws of do_rise; d.c3: condense on water; d.c4, d.c5, d.c6:
\* air cooling and its water draw; d.c7: condense on a spout; d.c8, d.c9: the
\* slow disappearance
SteamArm(els, x, y, i, d, fiv) ==
    LET rise == do_rise(els, x, y, i, d.c1, d.c2, d.coin, fiv) IN
    IF rise.moved THEN rise.grid
    ELSE IF d.c3 /\ IsSome(bordering(els, x, y, i, "Water", d.coin))
    THEN set_index(els, i, "Water")
    ELSE IF /\ d.c4 /\ d.c5
            /\ IsSome(below(els, y, i, "Background"))
            /\ ~(y > 0 /\ IsSome(above(els, y, i, "Background")))
    THEN set_index(els, i, IF d.c6 THEN "Water" ELSE "Background")
    ELSE IF d.c7 /\ IsSome(bordering(els, x, y, i, "Spout", d.coin))
    THEN set_index(els, i, "Water")
    ELSE IF d.c8 /\ d.c9 /\ ~IsSome(below(els, y, i, "Steam"))
    THEN set_index(els, i, "Background")
    ELSE els

\* d.c1: gravity; d.c2, d.c3, d.c4: the sinks through water, salt water and
\* pollen; d.c5: the nitro draw; d.c6: the absorb draw
SoilArm(els, x, y, i, d, fiv) ==
    LET gr == do_gravity(els, x, y, i, FALSE, d.c1, d.coin, fiv)
        s1 == do_density_sink(els, x, y, i, "Water", TRUE, d.c2)
        s2 == do_density_sink(els, x, y, i, "SaltWater", TRUE, d.c3)
        s3 == do_density_sink(els, x, y, i, "Pollen", TRUE, d.c4)
    IN  IF gr.moved THEN gr.grid
        ELSE IF y < max_y /\ s1.moved THEN s1.grid
        ELSE IF y < max_y /\ s2.moved THEN s2.grid
        ELSE IF y < max_y /\ s3.moved THEN s3.grid
        ELSE IF d.c5 /\ IsSome(bordering_adjacent(els, x, y, i, "Nitro", d.coin))
        THEN set_index(els, Unwrap(bordering_adjacent(els, x, y, i, "Nitro", d.coin)),
                       "ChargedNitro")
        ELSE IF d.c6 /\ IsSome(above_adjacent(els, x, y, i, "Water"))
        THEN set_index(set_index(els, Unwrap(above_adjacent(els, x, y, i, "Water")),
                                 "Background"),
                       i, "WetSoil")
        ELSE els

\* the call of run_simulation_frame: Some(particle_list) and
\* Some(active_branches) are supplied; d are the draws of the arm, t those of
\* start_tree_generation.  [grid, pool, branches] as the call leaves them.
CellAction(els, pl, bs, x, y, i, d, t, fiv) ==
    LET element == get_index(els, i) IN
    CASE element \in ReactiveElements ->
           LET r == ReactiveArm(els, Some(pl), x, y, i, d, fiv)
           IN  [grid |-> r.grid, pool |-> Unwrap(r.pool), branches |-> bs]
      [] element = "WetSoil" ->
           LET r == WetSoilArm(els, bs, x, y, i, d, t, fiv)
           IN  [grid |-> r.grid, pool |-> pl, branches |-> r.branches]
      [] element = "Soil" ->
           [grid |-> SoilArm(els, x, y, i, d, fiv), pool |-> pl, branches |-> bs]
      [] element = "Steam" ->
           [grid |-> SteamArm(els, x, y, i, d, fiv), pool |-> pl, branches |-> bs]
      [] element = "Plant" ->
           [grid |-> PlantArm(els, x, y, i, d), pool |-> pl, branches |-> bs]
      [] element \in ActionElements ->
           [grid |-> execute_element_action(els, x, y, i, d, fiv), pool |-> pl,
            branches |-> bs]

\* SpecSteam: ticks of run_simulation_frame over a narrow grid that holds one
\* steam cell and, at most, one wall cell.  hist counts the ticks begun and,
\* within the tick under way, the rows that the steam has risen.
SteamWidth == 2

SteamHeight == 3

SteamTicks == 2

SteamGrids ==
    { [i \in 0 .. (SteamWidth * SteamHeight - 1) |->
          IF i = s THEN "Steam" ELSE IF i = w THEN "Wall" ELSE "Background"] :
        s \in 0 .. (SteamWidth * SteamHeight - 1),
        w \in -1 .. (SteamWidth * SteamHeight - 1) }

\* the draws of the steam arm on these grids: the two of do_rise and the coin;
\* the others belong to steps that end the steam
SteamDraws ==
    [c1 : BOOLEAN, c2 : BOOLEAN, c3 : {FALSE}, c4 : {FALSE}, c5 : {FALSE}, c6 : {FALSE},
     c7 : {FALSE}, c8 : {FALSE}, c9 : {FALSE}, c10 : {FALSE}, coin : BOOLEAN]

SteamInit ==
    /\ width = SteamWidth
    /\ height = SteamHeight
    /\ elements \in SteamGrids
    /\ fall_into_void = FALSE
    /\ NoPool
    /\ branches = << >>
    /\ NoScan
    /\ last = NoLast
    /\ host = NoHost
    /\ hist = [ticks |-> 0, rises |-> 0]

\* the prologue of a tick: no branch to process, the spigots are off
SteamFrame ==
    /\ pc = "idle"
    /\ hist.ticks < SteamTicks
    /\ FramePrologue(elements, branches, SpigotsOff, << >>)
    /\ pc' = "scan"
    /\ scan_x' = ScanCell(0)[1]
    /\ scan_y' = ScanCell(0)[2]
    /\ last' = [op |-> "frame"]
    /\ hist' = [ticks |-> hist.ticks + 1, rises |-> 0]
    /\ FrameRest

\* the cell that the arm moved the tag of cell i to, in the row above; none
\* when it did not
RisenTo(before, after, i) ==
    { j \in DOMAIN after :
        /\ j \div width = (i \div width) - 1
        /\ before[i] = "Steam" /\ after[i] # "Steam"
        /\ before[j] # "Steam" /\ after[j] = "Steam" }

\* the loop's next cell that is not Background is visited
SteamVisit ==
    /\ pc = "scan"
    /\ ScanPending # {}
    /\ \E c \in {ScanCell(ScanNext)} : \E d \in SteamDraws :
         \E r \in {CellAction(elements, Pool, branches, c[1], c[2],
                              xy_to_index(c[1], c[2]), d, [u1 |-> 0, k1 |-> 0, k2 |-> 0,
                                                           b1 |-> FALSE],
                              fall_into_void)} :
           /\ elements' = r.grid
           /\ last' = [op |-> "visit", x |-> c[1], y |-> c[2],
                       to |-> RisenTo(elements, r.grid, xy_to_index(c[1], c[2]))]
           /\ hist' = [hist EXCEPT !.rises =
                          IF RisenTo(elements, r.grid, xy_to_index(c[1], c[2])) # {}
                          THEN @ + 1 ELSE @]
           /\ IF ScanRank(c[1], c[2]) = ScanLast
              THEN pc' = "idle" /\ scan_x' = 0 /\ scan_y' = 0
              ELSE /\ pc' = "scan"
                   /\ scan_x' = ScanCell(ScanRank(c[1], c[2]) + 1)[1]
                   /\ scan_y' = ScanCell(ScanRank(c[1], c[2]) + 1)[2]
    /\ UNCHANGED branches
    /\ FrameRest

\* only Background cells are left: the tick is over
SteamEnd ==
    /\ pc = "scan"
    /\ ScanPending = {}
    /\ pc' = "idle"
    /\ scan_x' = 0
    /\ scan_y' = 0
    /\ last' = [op |-> "frame_end"]
    /\ UNCHANGED << elements, branches, hist >>
    /\ FrameRest

SteamNext == SteamFrame \/ SteamVisit \/ SteamEnd

SpecSteam == SteamInit /\ [][SteamNext]_vars

\* C39: rows are fired from the bottom one to the top one, so a gas cell that
\* its rule has moved up one row lies in a row that the scan of this tick has
\* not reached: the loop is still under way and the cell is among those it will
\* fire.  (A tick in which one gas cell rises two rows is then reachable.)
C39_RisenGasIsFiredAgain ==
    (last.op = "visit" /\ last.to # {}) =>
        /\ pc = "scan"
        /\ \A j \in last.to :
             ScanRank(index_to_xy(j)[1], index_to_xy(j)[2]) \in ScanPending

\* the steam has risen two rows in one tick
C39_Witness ==
    /\ hist.rises >= 2
    /\ hist.ticks = 1
    /\ Count(elements, "Steam") = 1

-----------------------------------------------------------------------------
(* The running simulation: draw commands of the left button between ticks, and *)
(* ticks made of run_simulation_frame (the branches, then the scan) and the    *)
(* particle pass.  It starts as setup leaves it: an empty grid, the default    *)
(* pool, no branch.  hist counts the commands and, up to SeedTicks, the ticks; *)
(* the commands end, the ticks go on.                                          *)
SeedWidth == 2

SeedHeight == 3

SeedCapacity == 1

SeedCommands == 3

SeedTicks == 3

\* the least radius of the slider, 1.0, in halves
SeedRadius == 2

SeedElements == {"Wall", "WetSoil", "C4", "Fire"}

\* the cells the cursor is over when the button is held: the two lowest ones
\* of the left edge
SeedSpots == { << 0, SeedHeight - 1 >>, << 0, SeedHeight - 2 >> }

\* the draws of an arm that are let come up on these grids
SeedFreeDraws(element) ==
    CASE element = "WetSoil" -> {"c2", "c5"}
      [] element = "Soil" -> {"c1"}
      [] element = "C4" -> {"c1"}
      [] OTHER -> {}

SeedValues(element, n) == IF n \in SeedFreeDraws(element) THEN BOOLEAN ELSE {FALSE}

SeedDraws(element) ==
    [c1 : SeedValues(element, "c1"), c2 : SeedValues(element, "c2"),
     c3 : SeedValues(element, "c3"), c4 : SeedValues(element, "c4"),
     c5 : SeedValues(element, "c5"), c6 : SeedValues(element, "c6"),
     c7 : SeedValues(element, "c7"), c8 : SeedValues(element, "c8"),
     c9 : SeedValues(element, "c9"), c10 : SeedValues(element, "c10"),
     coin : SeedValues(element, "coin")]

SeedStarts == [u1 : {0}, k1 : {0}, k2 : {0}, b1 : BOOLEAN]

SeedTurns == [u1 : {0}, u2 : {0}, u3 : {0}]

SeedPassDraws == Draws({0}, {FALSE}, {0})

SeedInit ==
    /\ width = SeedWidth
    /\ height = SeedHeight
    /\ elements = new(SeedWidth, SeedHeight)
    /\ fall_into_void = FALSE
    /\ particles = DefaultPool(SeedCapacity).particles
    /\ active_indices = DefaultPool(SeedCapacity).active_indices
    /\ inactive_indices = DefaultPool(SeedCapacity).inactive_indices
    /\ particle_counts = DefaultPool(SeedCapacity).particle_counts
    /\ branches = << >>
    /\ NoScan
    /\ last = NoLast
    /\ host = NoHost
    /\ hist = [commands |-> 0, ticks |-> 0]

SeedRest == UNCHANGED << width, height, fall_into_void, host >>

\* handle_mouse_clicks_cpu with the left button held and no shift: the brush
\* at the cell under the cursor
SeedDraw ==
    /\ pc = "idle"
    /\ hist.commands < SeedCommands
    /\ \E at \in SeedSpots, element \in SeedElements, overwrite \in BOOLEAN :
         /\ elements' = Circle([grid |-> elements, times |-> {}], at[1], at[2], SeedRadius,
                               element, overwrite, 0).grid
         /\ last' = [op |-> "mouse", x |-> at[1], y |-> at[2], element |-> element]
    /\ hist' = [hist EXCEPT !.commands = @ + 1]
    /\ UNCHANGED << poolVars, branches, scanVars >>
    /\ SeedRest

\* the prologue of a tick
SeedFrame ==
    /\ pc = "idle"
    /\ \E ds \in BranchDraws(Len(branches), SeedTurns) :
         FramePrologue(elements, branches, SpigotsOff, ds)
    /\ pc' = "scan"
    /\ scan_x' = ScanCell(0)[1]
    /\ scan_y' = ScanCell(0)[2]
    /\ last' = [op |-> "frame"]
    /\ hist' = [hist EXCEPT !.ticks = Min(@ + 1, SeedTicks)]
    /\ UNCHANGED poolVars
    /\ SeedRest

\* the loop's next cell that is not Background: its arm is run with the pool
\* and the branch list
SeedVisit ==
    /\ pc = "scan"
    /\ ScanPending # {}
    /\ \E c \in {ScanCell(ScanNext)} :
         \E d \in SeedDraws(get(elements, c[1], c[2])) : \E t \in SeedStarts :
           \E r \in {CellAction(elements, Pool, branches, c[1], c[2],
                                xy_to_index(c[1], c[2]), d, t, fall_into_void)} :
             /\ elements' = r.grid
             /\ SetPool(r.pool)
             /\ branches' = r.branches
             /\ last' = [op |-> "visit", x |-> c[1], y |-> c[2],
                         started |-> Len(r.branches) - Len(branches)]
             /\ IF ScanRank(c[1], c[2]) = ScanLast
                THEN pc' = "pass" /\ scan_x' = 0 /\ scan_y' = 0
                ELSE /\ pc' = "scan"
                     /\ scan_x' = ScanCell(ScanRank(c[1], c[2]) + 1)[1]
                     /\ scan_y' = ScanCell(ScanRank(c[1], c[2]) + 1)[2]
    /\ UNCHANGED hist
    /\ SeedRest

\* only Background cells are left
SeedEnd ==
    /\ pc = "scan"
    /\ ScanPending = {}
    /\ pc' = "pass"
    /\ scan_x' = 0
    /\ scan_y' = 0
    /\ last' = [op |-> "frame_end"]
    /\ UNCHANGED << elements, poolVars, branches, hist >>
    /\ SeedRest

\* update_particles closes the tick
SeedPass ==
    /\ pc = "pass"
    /\ \E ds \in PassDraws(Pool, SeedPassDraws) :
         /\ SetPool(update_particles(Pool, ds, elements))
         /\ last' = [op |-> "pass", active |-> Len(active_indices)]
    /\ pc' = "idle"
    /\ UNCHANGED << elements, branches, scan_x, scan_y, hist >>
    /\ SeedRest

SeedNext == SeedDraw \/ SeedFrame \/ SeedVisit \/ SeedEnd \/ SeedPass

\* every frame of the app runs its systems
SpecSeed == SeedInit /\ [][SeedNext]_vars /\ WF_vars(SeedNext)

TreeParticles ==
    { i \in DOMAIN particles : particles[i].active /\ particles[i].particle_type = "Tree" }

SeedSpawned == active_indices # << >>

=============================================================================
